---- MODULE Spec2Model ----
(***************************************************************************)
(* A state-machine model of the scos-actions measurement actions:          *)
(*   - NasctnSeaDataProduct (actions/acquire_sea_data_product.py)          *)
(*   - YFactorCalibration   (actions/calibrate_y_factor.py)                *)
(*   - SteppedFrequencyFftAcquisition (actions/acquire_stepped_freq_fft.py)*)
(*   - SteppedFrequencyTimeDomainIqAcquisition                             *)
(*                          (actions/acquire_stepped_freq_tdomain_iq.py)   *)
(* together with the parts of Action (actions/interfaces/action.py) they   *)
(* use, and configure_sigan, healthy, power_cycle_and_connect and          *)
(* recompute_sensor_calibration_data of SignalAnalyzerInterface            *)
(* (hardware/sigan_iface.py).                                              *)
(*                                                                         *)
(* Numeric arrays are modelled as terms: an IQ buffer records the capture  *)
(* it came from, its dtype and the filter applied to it; a result array    *)
(* records the statistic, the IQ buffer it was computed from and the       *)
(* sequence of operations (round, astype) applied to it afterwards.        *)
(***************************************************************************)
EXTENDS Integers, Sequences, FiniteSets, TLC

\* ------------------------------------------------------------------ bounds
MaxSteps == 2      \* number of iteration steps (frequencies) of an action
MaxCalls == 2      \* number of invocations of __call__ on one instance
MaxIQ == 2         \* distinct capture contents the signal analyzer returns
MaxSamples == 8    \* length of the IQ buffer handed to get_td_power_results
MaxBinMs == 3      \* td_bin_size_ms
MaxM4s == 2        \* number of elements of an M4S result
MaxFreq == 2       \* center frequencies a stepped time-domain acquisition is configured with
MaxCfgKeys == 2    \* keys of one dictionary handed to configure_sigan
MaxCfgItems == 2   \* dictionaries of a list handed to configure_sigan

VARIABLES
    \* shared collaborators
    sigan,          \* signal analyzer attributes: is_available, frequency, sample_rate, preamp_enable
    preselector,    \* last state commanded through preselector.set_state
    \* NasctnSeaDataProduct instance and its __call__ frame
    sea_parameters, \* keys of self.parameters
    sea_steps,      \* the per-step parameter sets the configuration expands to
    iir_sos,        \* self.iir_sos
    fft_window,     \* self.fft_window
    fft_window_ecf, \* self.fft_window_ecf
    sea_pc,         \* position inside __call__ / generate_data_product
    sea_calls,      \* invocations of __call__ so far
    sea_i,          \* loop index i of __call__ (1-based)
    sea_mr,         \* measurement_result of the current step
    iq,             \* local iq of generate_data_product
    data_product,   \* local data_product of generate_data_product
    gdp_log,        \* stages generate_data_product has run for this capture
    gdp_entry,      \* the arguments and instance state seen at entry of generate_data_product
    sea_trace,      \* steps of the current __call__, in order
    sea_signals,    \* data of the measurement_action_completed signals sent
    sea_err,        \* exception that left __call__, or "none"
    \* YFactorCalibration instance and its __call__ / calibrate frame
    cal_cfg,        \* the parameters the action is constructed with
    cal_steps,      \* self.iteration_params
    cal_iir_apply,  \* self.iir_apply
    cal_iir,        \* self.iir_sos, self.iir_cutoff_Hz, self.iir_width_Hz ("unset" before assignment)
    cal_pc,         \* position inside __init__ / __call__ / calibrate
    cal_calls,      \* invocations of __call__ so far
    cal_i,          \* loop index of __call__ (1-based)
    noise_on,       \* noise_on_measurement_result
    noise_off,      \* noise_off_measurement_result
    cal_data,       \* noise_on_data, noise_off_data, enbw_hz
    cal_result,     \* noise_figure, gain, temp_c of the current step
    cal_trace,      \* steps of the current run of calibrate, in order
    cal_updates,    \* calls of sensor_calibration.update made by the current __call__, in order
    cal_detail,     \* detail of the current __call__: result strings and separators
    cal_err,        \* exception that left __init__ or __call__, or "none"
    \* one evaluation of the block arithmetic of get_td_power_results
    td_args,        \* len(iqdata), params[TD_BIN_SIZE_MS], params[SAMPLE_RATE]
    td_ret,         \* block_size, n_blocks and the shape of the reshaped buffer, or the exception
    \* SteppedFrequencyFftAcquisition instance and its __call__ frame
    iterable_params, \* self.iterable_params
    fft_pc,         \* position inside __call__
    fft_calls,      \* invocations of __call__ so far
    recording_id,   \* loop variable recording_id
    saved_samples,  \* local saved_samples
    fft_mr,         \* measurement_result of the current step: samples requested, capture_segment
    m4s_result,     \* len(m4s_result.ravel()) of the current step
    fft_log,        \* steps of the current __call__, in order
    fft_err,        \* exception that left __call__, or "none"
    \* SteppedFrequencyTimeDomainIqAcquisition instance and its __call__ frame
    tdq_parameters, \* the dict of lists the action is constructed with
    sorted_measurement_parameters, \* self.sorted_measurement_parameters
    num_center_frequencies,        \* self.num_center_frequencies
    tdq_pc,         \* position inside __init__ / __call__
    tdq_calls,      \* invocations of __call__ so far
    tdq_recording_id, \* loop variable recording_id
    tdq_mr,         \* measurement_result of the current step
    tdq_log,        \* steps of the current __call__, in order
    tdq_err,        \* exception that left __call__, or "none"
    \* one invocation of Action.configure_sigan
    cfg_params,     \* measurement_params: its kind (dict, list, other) and its dictionaries
    cfg_pc,         \* "pending" before the invocation, "done" after it
    cfg_before,     \* the signal analyzer's attributes at entry
    cfg_warnings,   \* keys logger.warning was called for, in order
    cfg_err,        \* exception that left configure_sigan, or "none"
    \* SignalAnalyzerInterface.healthy and power_cycle_and_connect, one caller
    si_pc,          \* position inside healthy / power_cycle_and_connect, or "idle"
    si_calls,       \* invocations of the two methods so far
    h_num_samples,  \* argument num_samples of healthy
    h_is_available, \* what self.is_available gave healthy: "unread", "True" or "False"
    h_acquires,     \* arguments of the acquire_time_domain_samples calls of healthy, in order
    h_result,       \* outcome of the acquisition and len(data)
    h_ret,          \* "pending", the value healthy returned, or "raised"
    pcc_sleep_time, \* argument sleep_time of power_cycle_and_connect
    pcc_log,        \* the calls power_cycle_and_connect made and their outcomes, in order
    pcc_ret,        \* "pending", "returned", or "raised"
    \* recompute_sensor_calibration_data in one thread, a reader in another
    sensor_calibration,      \* the module-level sensor calibration: "loaded" or "None"
    sensor_calibration_data, \* self.sensor_calibration_data
    rc_pc,          \* position inside recompute_sensor_calibration_data, or "idle"
    rc_calls,       \* invocations of recompute_sensor_calibration_data so far
    rc_cal_args,    \* argument cal_args
    rc_before,      \* self.sensor_calibration_data at entry of the current invocation
    rc_err,         \* exception that left recompute_sensor_calibration_data, or "none"
    observed        \* what the reader has read, with the data before and after the recompute under way

sea_vars == <<sea_parameters, sea_steps, iir_sos, fft_window, fft_window_ecf,
              sea_pc, sea_calls, sea_i, sea_mr, iq, data_product, gdp_log,
              gdp_entry, sea_trace, sea_signals, sea_err>>

cal_vars == <<cal_cfg, cal_steps, cal_iir_apply, cal_iir, cal_pc, cal_calls, cal_i,
              noise_on, noise_off, cal_data, cal_result, cal_trace, cal_updates,
              cal_detail, cal_err>>

td_vars == <<td_args, td_ret>>

fft_vars == <<iterable_params, fft_pc, fft_calls, recording_id, saved_samples, fft_mr,
              m4s_result, fft_log, fft_err>>

tdq_vars == <<tdq_parameters, sorted_measurement_parameters, num_center_frequencies,
              tdq_pc, tdq_calls, tdq_recording_id, tdq_mr, tdq_log, tdq_err>>

cfg_vars == <<cfg_params, cfg_pc, cfg_before, cfg_warnings, cfg_err>>

si_vars == <<si_pc, si_calls, h_num_samples, h_is_available, h_acquires, h_result,
             h_ret, pcc_sleep_time, pcc_log, pcc_ret>>

rc_vars == <<sensor_calibration, sensor_calibration_data, rc_pc, rc_calls, rc_cal_args,
             rc_before, rc_err, observed>>

\* what the steps of one action leave alone
sea_others == <<cal_vars, td_vars, fft_vars, tdq_vars, cfg_vars, si_vars, rc_vars>>
cal_others == <<sea_vars, td_vars, fft_vars, tdq_vars, cfg_vars, si_vars, rc_vars>>
td_others == <<sigan, preselector, sea_vars, cal_vars, fft_vars, tdq_vars, cfg_vars, si_vars, rc_vars>>
fft_others == <<preselector, sea_vars, cal_vars, td_vars, tdq_vars, cfg_vars, si_vars, rc_vars>>
tdq_others == <<preselector, sea_vars, cal_vars, td_vars, fft_vars, cfg_vars, si_vars, rc_vars>>
cfg_others == <<preselector, sea_vars, cal_vars, td_vars, fft_vars, tdq_vars, si_vars, rc_vars>>
si_others == <<preselector, sea_vars, cal_vars, td_vars, fft_vars, tdq_vars, cfg_vars, rc_vars>>
rc_others == <<sigan, preselector, sea_vars, cal_vars, td_vars, fft_vars, tdq_vars, cfg_vars,
               si_vars>>

\* --------------------------------------------------------- parameter keys
\* acquire_sea_data_product.py:60-77
IIR_APPLY == "iir_apply"
RP_DB == "iir_rp_dB"
RS_DB == "iir_rs_dB"
IIR_CUTOFF_HZ == "iir_cutoff_Hz"
IIR_WIDTH_HZ == "iir_width_Hz"
QFILT_APPLY == "qfilt_apply"
Q_LO == "qfilt_qlo"
Q_HI == "qfilt_qhi"
FFT_SIZE == "fft_size"
NUM_FFTS == "nffts"
FFT_WINDOW_TYPE == "fft_window_type"
APD_BIN_SIZE_DB == "apd_bin_size_dB"
TD_BIN_SIZE_MS == "td_bin_size_ms"
ROUND_TO == "round_to_places"
FREQUENCY == "frequency"
SAMPLE_RATE == "sample_rate"
DURATION_MS == "duration_ms"
NUM_SKIP == "nskip"

\* every key the SEA action configuration holds
SeaAllKeys == {"name", IIR_APPLY, RP_DB, RS_DB, IIR_CUTOFF_HZ, IIR_WIDTH_HZ,
               QFILT_APPLY, Q_LO, Q_HI, FFT_SIZE, NUM_FFTS, FFT_WINDOW_TYPE,
               APD_BIN_SIZE_DB, TD_BIN_SIZE_MS, ROUND_TO, FREQUENCY,
               SAMPLE_RATE, DURATION_MS, NUM_SKIP}

\* the keys __call__ removes from self.parameters, in order
SeaPoppedKeys == <<RP_DB, RS_DB, IIR_CUTOFF_HZ, IIR_WIDTH_HZ, Q_LO, Q_HI, FFT_WINDOW_TYPE>>

\* ----------------------------------------------------------------- values
NoBuffer == [capture |-> 0, dtype |-> "none", sos |-> "none"]
\* what measurement_result["data"] holds: the raw IQ buffer, or the data product
RawData(buf) == [kind |-> "iq", buf |-> buf, arrays |-> <<>>]
ProductData(dp) == [kind |-> "data_product", buf |-> NoBuffer, arrays |-> dp]
NoResult == [data |-> [kind |-> "none", buf |-> NoBuffer, arrays |-> <<>>],
             params |-> [frequency |-> 0, iir_apply |-> FALSE, round_to_places |-> 0],
             task_id |-> 0]
NoEntry == [mr |-> NoResult, params |-> NoResult.params, iir_sos |-> "none",
            fft_window |-> "none", fft_window_ecf |-> "none", trace |-> <<>>,
            sigan |-> [is_available |-> FALSE, frequency |-> 0, sample_rate |-> 0,
                       preamp_enable |-> FALSE]]

RoundPlaces == {0, 2}

\* one per-step parameter set; step k of a configuration is tuned to frequency k
SeaParams(k, apply, places) ==
    [frequency |-> k, iir_apply |-> apply, round_to_places |-> places]

\* --------------------------------------------------- numeric collaborators
\* ndarray.astype(dtype): a new buffer with the same samples
AsType(buf, dtype) == [buf EXCEPT !.dtype = dtype]

\* scipy.signal.sosfilt(sos, x): a new buffer, x filtered by sos
SosFilt(sos, buf) == [buf EXCEPT !.sos = sos]

\* a freshly computed result array of statistic stat over the buffer buf
Arr(stat, buf) == [stat |-> stat, iq |-> buf, ops |-> <<>>]

\* ndarray.round(decimals, out=self)
Round(a, places) == [a EXCEPT !.ops = Append(@, [op |-> "round", arg |-> places])]

\* ndarray.astype(np.half)
Half(a) == [a EXCEPT !.ops = Append(@, [op |-> "astype_half", arg |-> 0])]

\* mutant: the detector results in the order (max, mean)
get_fft_results_MaxFirst(iqdata, params) == <<Arr("fft_max", iqdata), Arr("fft_mean", iqdata)>>

\* get_fft_results: (mean, max) of the windowed FFT of iqdata
get_fft_results(iqdata, params) == <<Arr("fft_mean", iqdata), Arr("fft_max", iqdata)>>

\* get_td_power_results: (mean, max) of the time-domain power of iqdata
get_td_power_results(iqdata, params) == <<Arr("td_mean", iqdata), Arr("td_max", iqdata)>>

\* mutant: the APD axes returned as (a, p)
get_apd_results_AmplitudeFirst(iqdata, params) == <<Arr("apd_a", iqdata), Arr("apd_p", iqdata)>>

\* get_apd_results: p, a = get_apd(...); a scaled to dBm in place; return p, a
get_apd_results(iqdata, params) == <<Arr("apd_p", iqdata), Arr("apd_a", iqdata)>>

\* the index the rounding loop skips; Python's i == 4 is position 5 of a 1-based sequence
SkipIndex == 4 + 1

\* the rounding loop of generate_data_product
RoundLoop(dp, places) ==
    [k \in 1..Len(dp) |-> IF k = SkipIndex THEN dp[k] ELSE Round(dp[k], places)]

\* mutant: the narrowing loop skips the entry the rounding loop skipped
NarrowLoop_SkipUnrounded(dp) == [k \in 1..Len(dp) |-> IF k = SkipIndex THEN dp[k] ELSE Half(dp[k])]

\* the narrowing loop of generate_data_product
NarrowLoop(dp) == [k \in 1..Len(dp) |-> Half(dp[k])]

\* the loop popping keys of self.parameters: stops at the first missing key
RECURSIVE PopKeys(_, _, _)
PopKeys(keys, order, k) ==
    IF k > Len(order) THEN [keys |-> keys, err |-> "none"]
    ELSE IF order[k] \notin keys THEN [keys |-> keys, err |-> "KeyError"]
    ELSE PopKeys(keys \ {order[k]}, order, k + 1)

\* Action.configure_sigan_with_dictionary: sets the attributes the sigan has
ConfigureSigan(sg, params) ==
    [a \in DOMAIN sg |-> IF a \in DOMAIN params THEN params[a] ELSE sg[a]]

\* ------------------------------------------------------------------- Init
SeaStepSets ==
    UNION { { [k \in 1..n |-> SeaParams(k, applies[k], places)] :
                applies \in [1..n -> BOOLEAN], places \in RoundPlaces } :
            n \in 1..MaxSteps }

SiganInit == [is_available : BOOLEAN, frequency : {0}, sample_rate : {0}, preamp_enable : {FALSE}]

SeaInit(stepsets) ==
    /\ sea_parameters = SeaAllKeys
    /\ sea_steps \in stepsets
    /\ iir_sos = "sea_sos"
    /\ fft_window = "window"
    /\ fft_window_ecf = "ecf"
    /\ sea_pc = "idle"
    /\ sea_calls = 0
    /\ sea_i = 0
    /\ sea_mr = NoResult
    /\ iq = NoBuffer
    /\ data_product = <<>>
    /\ gdp_log = <<>>
    /\ gdp_entry = NoEntry
    /\ sea_trace = <<>>
    /\ sea_signals = <<>>
    /\ sea_err = "none"

Ev(e, i) == [ev |-> e, step |-> i]

\* ------------------------------------------------ NasctnSeaDataProduct
\* __call__ up to the loop: pop the keys, test_required_components
SeaCall ==
    /\ sea_pc \in {"idle", "done", "failed"}
    /\ sea_calls < MaxCalls
    /\ sea_calls' = sea_calls + 1
    /\ sea_trace' = <<>>
    /\ sea_signals' = <<>>
    /\ LET popped == PopKeys(sea_parameters, SeaPoppedKeys, 1) IN
        /\ sea_parameters' = popped.keys
        /\ IF popped.err # "none"
           THEN sea_err' = popped.err /\ sea_pc' = "failed" /\ sea_i' = 0
           ELSE IF ~sigan.is_available
           THEN sea_err' = "RuntimeError" /\ sea_pc' = "failed" /\ sea_i' = 0
           ELSE sea_err' = "none" /\ sea_pc' = "capture" /\ sea_i' = 1
    /\ UNCHANGED <<sigan, preselector, sea_steps, iir_sos, fft_window, fft_window_ecf,
                   sea_mr, iq, data_product, gdp_log, gdp_entry>>

\* mutant: all captures are taken first, the data products are generated afterwards
SeaCaptureIq_AllFirst ==
    /\ sea_pc = "capture"
    /\ LET p == sea_steps[sea_i] IN
        /\ sigan' = ConfigureSigan(sigan, p)
        /\ \/ \E c \in 1..MaxIQ :
                /\ sea_mr' = [data |-> RawData([capture |-> c, dtype |-> "complex64",
                                                sos |-> "none"]),
                              params |-> p, task_id |-> sea_calls]
                /\ IF sea_i < Len(sea_steps)
                   THEN sea_pc' = "capture" /\ sea_i' = sea_i + 1
                   ELSE sea_pc' = "gdp_begin" /\ sea_i' = sea_i
                /\ sea_err' = sea_err
           \/ /\ sea_mr' = sea_mr
              /\ sea_pc' = "failed"
              /\ sea_i' = sea_i
              /\ sea_err' = "AcquireError"
    /\ sea_trace' = sea_trace \o <<Ev("configure", sea_i), Ev("acquire", sea_i)>>
    /\ UNCHANGED <<preselector, sea_parameters, sea_steps, iir_sos, fft_window,
                   fft_window_ecf, sea_calls, iq, data_product, gdp_log,
                   gdp_entry, sea_signals>>

\* capture_iq: configure, then acquire_time_domain_samples, which returns or raises
SeaCaptureIq ==
    /\ sea_pc = "capture"
    /\ LET p == sea_steps[sea_i] IN
        /\ sigan' = ConfigureSigan(sigan, p)
        /\ \/ \E c \in 1..MaxIQ :
                /\ sea_mr' = [data |-> RawData([capture |-> c, dtype |-> "complex64",
                                                sos |-> "none"]),
                              params |-> p, task_id |-> sea_calls]
                /\ sea_pc' = "gdp_begin"
                /\ sea_err' = sea_err
           \/ /\ sea_mr' = sea_mr
              /\ sea_pc' = "failed"
              /\ sea_err' = "AcquireError"
    /\ sea_trace' = sea_trace \o <<Ev("configure", sea_i), Ev("acquire", sea_i)>>
    /\ UNCHANGED <<preselector, sea_parameters, sea_steps, iir_sos, fft_window,
                   fft_window_ecf, sea_calls, sea_i, iq, data_product, gdp_log,
                   gdp_entry, sea_signals>>

\* generate_data_product, entry: iq = measurement_result["data"].astype(complex128)
GdpBegin ==
    /\ sea_pc = "gdp_begin"
    /\ gdp_entry' = [mr |-> sea_mr, params |-> sea_steps[sea_i], iir_sos |-> iir_sos,
                     fft_window |-> fft_window, fft_window_ecf |-> fft_window_ecf,
                     trace |-> sea_trace, sigan |-> sigan]
    /\ iq' = AsType(sea_mr.data.buf, "complex128")
    /\ data_product' = <<>>
    /\ gdp_log' = <<>>
    /\ sea_pc' = "gdp_fft"
    /\ UNCHANGED <<sigan, preselector, sea_parameters, sea_steps, iir_sos, fft_window,
                   fft_window_ecf, sea_calls, sea_i, sea_mr, sea_trace, sea_signals, sea_err>>

\* mutant: the IQ is filtered before the FFT results are taken
GdpFft_OnFilteredIq ==
    /\ sea_pc = "gdp_fft"
    /\ data_product' = data_product \o
          get_fft_results(IF sea_steps[sea_i].iir_apply THEN SosFilt(iir_sos, iq) ELSE iq,
                          sea_steps[sea_i])
    /\ gdp_log' = Append(gdp_log, "fft")
    /\ sea_pc' = "gdp_filter"
    /\ UNCHANGED <<sigan, preselector, sea_parameters, sea_steps, iir_sos, fft_window,
                   fft_window_ecf, sea_calls, sea_i, sea_mr, iq, gdp_entry, sea_trace,
                   sea_signals, sea_err>>

\* data_product.extend(self.get_fft_results(iq, params))
GdpFft ==
    /\ sea_pc = "gdp_fft"
    /\ data_product' = data_product \o get_fft_results(iq, sea_steps[sea_i])
    /\ gdp_log' = Append(gdp_log, "fft")
    /\ sea_pc' = "gdp_filter"
    /\ UNCHANGED <<sigan, preselector, sea_parameters, sea_steps, iir_sos, fft_window,
                   fft_window_ecf, sea_calls, sea_i, sea_mr, iq, gdp_entry, sea_trace,
                   sea_signals, sea_err>>

\* mutant: the filter output is written into the caller's buffer
GdpFilter_InPlace ==
    /\ sea_pc = "gdp_filter"
    /\ IF sea_steps[sea_i].iir_apply
       THEN /\ iq' = SosFilt(iir_sos, iq)
            /\ sea_mr' = [sea_mr EXCEPT !.data.buf = SosFilt(iir_sos, @)]
            /\ gdp_log' = Append(gdp_log, "filter")
       ELSE UNCHANGED <<iq, gdp_log, sea_mr>>
    /\ sea_pc' = "gdp_td"
    /\ UNCHANGED <<sigan, preselector, sea_parameters, sea_steps, iir_sos, fft_window,
                   fft_window_ecf, sea_calls, sea_i, data_product, gdp_entry,
                   sea_trace, sea_signals, sea_err>>

\* if params[IIR_APPLY]: iq = sosfilt(self.iir_sos, iq)
GdpFilter ==
    /\ sea_pc = "gdp_filter"
    /\ IF sea_steps[sea_i].iir_apply
       THEN /\ iq' = SosFilt(iir_sos, iq)
            /\ gdp_log' = Append(gdp_log, "filter")
       ELSE UNCHANGED <<iq, gdp_log>>
    /\ sea_pc' = "gdp_td"
    /\ UNCHANGED <<sigan, preselector, sea_parameters, sea_steps, iir_sos, fft_window,
                   fft_window_ecf, sea_calls, sea_i, sea_mr, data_product, gdp_entry,
                   sea_trace, sea_signals, sea_err>>

\* data_product.extend(self.get_td_power_results(iq, params))
GdpTd ==
    /\ sea_pc = "gdp_td"
    /\ data_product' = data_product \o get_td_power_results(iq, sea_steps[sea_i])
    /\ gdp_log' = Append(gdp_log, "td")
    /\ sea_pc' = "gdp_apd"
    /\ UNCHANGED <<sigan, preselector, sea_parameters, sea_steps, iir_sos, fft_window,
                   fft_window_ecf, sea_calls, sea_i, sea_mr, iq, gdp_entry, sea_trace,
                   sea_signals, sea_err>>

\* data_product.extend(self.get_apd_results(iq, params)); del iq
GdpApd ==
    /\ sea_pc = "gdp_apd"
    /\ data_product' = data_product \o get_apd_results(iq, sea_steps[sea_i])
    /\ gdp_log' = Append(gdp_log, "apd")
    /\ iq' = NoBuffer
    /\ sea_pc' = "gdp_round"
    /\ UNCHANGED <<sigan, preselector, sea_parameters, sea_steps, iir_sos, fft_window,
                   fft_window_ecf, sea_calls, sea_i, sea_mr, gdp_entry, sea_trace,
                   sea_signals, sea_err>>

\* the loop rounding every entry but index 4 in place
GdpRound ==
    /\ sea_pc = "gdp_round"
    /\ data_product' = RoundLoop(data_product, sea_steps[sea_i].round_to_places)
    /\ gdp_log' = Append(gdp_log, "round")
    /\ sea_pc' = "gdp_narrow"
    /\ UNCHANGED <<sigan, preselector, sea_parameters, sea_steps, iir_sos, fft_window,
                   fft_window_ecf, sea_calls, sea_i, sea_mr, iq, gdp_entry, sea_trace,
                   sea_signals, sea_err>>

\* the loop replacing every entry by its half-precision copy
GdpNarrow ==
    /\ sea_pc = "gdp_narrow"
    /\ data_product' = NarrowLoop(data_product)
    /\ gdp_log' = Append(gdp_log, "narrow")
    /\ sea_pc' = "gdp_return"
    /\ UNCHANGED <<sigan, preselector, sea_parameters, sea_steps, iir_sos, fft_window,
                   fft_window_ecf, sea_calls, sea_i, sea_mr, iq, gdp_entry, sea_trace,
                   sea_signals, sea_err>>

\* mutant: the data product is not stored, measurement_result keeps the raw IQ
SeaStoreProduct_KeepRaw ==
    /\ sea_pc = "gdp_return"
    /\ sea_mr' = sea_mr
    /\ sea_trace' = Append(sea_trace, Ev("assemble", sea_i))
    /\ sea_pc' = "signal"
    /\ UNCHANGED <<sigan, preselector, sea_parameters, sea_steps, iir_sos, fft_window,
                   fft_window_ecf, sea_calls, sea_i, iq, data_product, gdp_log,
                   gdp_entry, sea_signals, sea_err>>

\* generate_data_product returns; __call__ stores the result over the IQ data
SeaStoreProduct ==
    /\ sea_pc = "gdp_return"
    /\ sea_mr' = [sea_mr EXCEPT !.data = ProductData(data_product)]
    /\ sea_trace' = Append(sea_trace, Ev("assemble", sea_i))
    /\ sea_pc' = "signal"
    /\ UNCHANGED <<sigan, preselector, sea_parameters, sea_steps, iir_sos, fft_window,
                   fft_window_ecf, sea_calls, sea_i, iq, data_product, gdp_log,
                   gdp_entry, sea_signals, sea_err>>

\* measurement_action_completed.send(...), then the next iteration or the end
SeaSendSignal ==
    /\ sea_pc = "signal"
    /\ sea_signals' = Append(sea_signals, sea_mr.data)
    /\ sea_trace' = Append(sea_trace, Ev("signal", sea_i))
    /\ IF sea_i < Len(sea_steps)
       THEN sea_i' = sea_i + 1 /\ sea_pc' = "capture"
       ELSE sea_i' = sea_i /\ sea_pc' = "done"
    /\ UNCHANGED <<sigan, preselector, sea_parameters, sea_steps, iir_sos, fft_window,
                   fft_window_ecf, sea_calls, sea_mr, iq, data_product, gdp_log,
                   gdp_entry, sea_err>>

\* ---------------------------------------------------- YFactorCalibration
\* calibrate_y_factor.py:102-117
RF_PATH == "rf_path"
NOISE_DIODE_ON == [rf_path |-> "noise_diode_on"]
NOISE_DIODE_OFF == [rf_path |-> "noise_diode_off"]
IIR_RP == "iir_rp_dB"
IIR_RS == "iir_rs_dB"
IIR_CUTOFF == "iir_cutoff_Hz"
IIR_WIDTH == "iir_width_Hz"
CAL_SOURCE_IDX == "cal_source_idx"
TEMP_SENSOR_IDX == "temp_sensor_idx"

\* the keys calibrate removes from its copy of params before configuring the sigan
CalPoppedKeys == {DURATION_MS, NUM_SKIP, IIR_APPLY, IIR_RP, IIR_RS, IIR_CUTOFF,
                  IIR_WIDTH, CAL_SOURCE_IDX, TEMP_SENSOR_IDX}

\* one per-step parameter set of the calibration; step k is tuned to frequency k
CalParams(k, preamp) ==
    [frequency |-> k, sample_rate |-> 1, preamp_enable |-> preamp, duration_ms |-> 1,
     nskip |-> 0, cal_source_idx |-> 0, temp_sensor_idx |-> 1]

CalStepSets ==
    UNION { { [k \in 1..n |-> CalParams(k, preamps[k])] : preamps \in [1..n -> BOOLEAN] } :
            n \in 1..MaxSteps }

\* the values the configuration may give iir_apply: absent, a bool, a truthy
\* value that is not the object True (the integer 1), or a list
IirApplyConfigs == {"missing", "True", "False", "1", "list"}

Truthy(v) == v \in {"True", "1"}

CalConfigs == [iir_apply : IirApplyConfigs,
               iir_params_list : BOOLEAN,     \* one of rp, rs, cutoff, width, sample_rate is a list
               iir_cutoff_Hz : {5}, iir_width_Hz : {1},
               steps : CalStepSets]

NoIir == [sos |-> "unset", cutoff_Hz |-> 0, width_Hz |-> 0]
NoCapture == [data |-> [capture |-> 0, dtype |-> "none", sos |-> "none"], sample_rate |-> 0]
NoCalData == [noise_on_data |-> NoCapture.data, noise_off_data |-> NoCapture.data, enbw_hz |-> 0]
NoCalResult == [noise_figure |-> <<>>, gain |-> <<>>, temp_c |-> <<>>]

CalInit(configs) ==
    /\ cal_cfg \in configs
    /\ cal_steps = <<>>
    /\ cal_iir_apply = "unset"
    /\ cal_iir = NoIir
    /\ cal_pc = "new"
    /\ cal_calls = 0
    /\ cal_i = 0
    /\ noise_on = NoCapture
    /\ noise_off = NoCapture
    /\ cal_data = NoCalData
    /\ cal_result = NoCalResult
    /\ cal_trace = <<>>
    /\ cal_updates = <<>>
    /\ cal_detail = <<>>
    /\ cal_err = "none"

\* Action.configure_sigan: a list or a dict configures the sigan, any other value does nothing
configure_sigan(sg, measurement_params, isDict) ==
    IF isDict THEN ConfigureSigan(sg, measurement_params) ELSE sg

\* a dict without the given keys
Without(d, keys) == [k \in (DOMAIN d) \ keys |-> d[k]]

\* calculate_power_watts(data / 2.): |x/2|^2 / 50 of a capture of amplitude 20*capture
calculate_power_watts(data) ==
    LET half == (20 * data.capture) \div 2 IN (half * half) \div 50

\* get_linear_enr(cal_source_idx)
get_linear_enr(idx) == <<"enr", idx>>

\* get_temperature(temp_sensor_idx): (kelvin, celsius, fahrenheit)
get_temperature(idx) == <<<<"temp_k", idx>>, <<"temp_c", idx>>, <<"temp_f", idx>>>>

\* y_factor: fails for y = P_on / P_off <= 1, else noise figure and gain
y_factor(pwr_on, pwr_off, enr_linear, enbw_hz, temp_k) ==
    IF pwr_on <= pwr_off
    THEN [err |-> "DegenerateYFactorError", noise_figure |-> <<>>, gain |-> <<>>]
    ELSE [err |-> "none",
          noise_figure |-> <<"nf", enr_linear, pwr_on, pwr_off>>,
          gain |-> <<"gain", pwr_on, pwr_off, enr_linear, enbw_hz, temp_k>>]

\* mutant: filter parameters given as lists are not rejected
CalConstruct_ListsAccepted ==
    /\ cal_pc = "new"
    /\ cal_steps' = cal_cfg.steps
    /\ LET apply == IF cal_cfg.iir_apply = "missing" THEN "False" ELSE cal_cfg.iir_apply IN
        /\ cal_iir_apply' = apply
        /\ IF apply = "list"
           THEN /\ cal_err' = "ParameterException"
                /\ cal_pc' = "ctor_failed"
                /\ cal_iir' = cal_iir
           ELSE IF apply = "True"
           THEN /\ cal_iir' = [sos |-> "cal_sos", cutoff_Hz |-> cal_cfg.iir_cutoff_Hz,
                               width_Hz |-> cal_cfg.iir_width_Hz]
                /\ cal_pc' = "idle"
                /\ cal_err' = cal_err
           ELSE /\ cal_iir' = cal_iir
                /\ cal_pc' = "idle"
                /\ cal_err' = cal_err
    /\ UNCHANGED <<sigan, preselector, cal_cfg, cal_calls, cal_i, noise_on, noise_off,
                   cal_data, cal_result, cal_trace, cal_updates, cal_detail>>

\* __init__: iteration parameters, iir_apply, and the filter when iir_apply is True
CalConstruct ==
    /\ cal_pc = "new"
    /\ cal_steps' = cal_cfg.steps
    /\ LET apply == IF cal_cfg.iir_apply = "missing" THEN "False" ELSE cal_cfg.iir_apply IN
        /\ cal_iir_apply' = apply
        /\ IF apply = "list"
           THEN /\ cal_err' = "ParameterException"
                /\ cal_pc' = "ctor_failed"
                /\ cal_iir' = cal_iir
           ELSE IF apply = "True"
           THEN IF ~cal_cfg.iir_params_list
                THEN /\ cal_iir' = [sos |-> "cal_sos", cutoff_Hz |-> cal_cfg.iir_cutoff_Hz,
                                    width_Hz |-> cal_cfg.iir_width_Hz]
                     /\ cal_pc' = "idle"
                     /\ cal_err' = cal_err
                ELSE /\ cal_iir' = cal_iir
                     /\ cal_err' = "ParameterException"
                     /\ cal_pc' = "ctor_failed"
           ELSE /\ cal_iir' = cal_iir
                /\ cal_pc' = "idle"
                /\ cal_err' = cal_err
    /\ UNCHANGED <<sigan, preselector, cal_cfg, cal_calls, cal_i, noise_on, noise_off,
                   cal_data, cal_result, cal_trace, cal_updates, cal_detail>>

\* __call__ up to the loop: test_required_components
CalCall ==
    /\ cal_pc \in {"idle", "done", "failed"}
    /\ cal_calls < MaxCalls
    /\ cal_calls' = cal_calls + 1
    /\ cal_detail' = <<>>
    /\ cal_trace' = <<>>
    /\ IF ~sigan.is_available
       THEN cal_err' = "RuntimeError" /\ cal_pc' = "failed" /\ cal_i' = 0
       ELSE cal_err' = "none" /\ cal_pc' = "configure" /\ cal_i' = 1
    /\ noise_on' = NoCapture
    /\ noise_off' = NoCapture
    /\ cal_data' = NoCalData
    /\ cal_result' = NoCalResult
    /\ cal_updates' = <<>>
    /\ UNCHANGED <<sigan, preselector, cal_cfg, cal_steps, cal_iir_apply, cal_iir>>

\* calibrate, lines 188-209: configure the signal analyzer
CalConfigure ==
    /\ cal_pc = "configure"
    /\ LET params == cal_steps[cal_i]
           sigan_params == Without(params, CalPoppedKeys \cup {"preamp_enable"})
       IN sigan' = configure_sigan(configure_sigan(sigan, params["preamp_enable"], FALSE),
                                   sigan_params, TRUE)
    /\ cal_trace' = <<"configure_sigan">>
    /\ noise_on' = NoCapture
    /\ noise_off' = NoCapture
    /\ cal_data' = NoCalData
    /\ cal_result' = NoCalResult
    /\ cal_pc' = "diode_on"
    /\ UNCHANGED <<preselector, cal_cfg, cal_steps, cal_iir_apply, cal_iir, cal_calls,
                   cal_i, cal_updates, cal_detail, cal_err>>

\* mutant: the capture starts right after the diode is switched on, without the settle time
CalDiodeOn_NoSettle ==
    /\ cal_pc = "diode_on"
    /\ preselector' = NOISE_DIODE_ON[RF_PATH]
    /\ cal_trace' = Append(cal_trace, "noise_diode_on")
    /\ cal_pc' = "acquire_on"
    /\ UNCHANGED <<sigan, cal_cfg, cal_steps, cal_iir_apply, cal_iir, cal_calls, cal_i,
                   noise_on, noise_off, cal_data, cal_result, cal_updates, cal_detail,
                   cal_err>>

\* super().configure_preselector(NOISE_DIODE_ON)
CalDiodeOn ==
    /\ cal_pc = "diode_on"
    /\ preselector' = NOISE_DIODE_ON[RF_PATH]
    /\ cal_trace' = Append(cal_trace, "noise_diode_on")
    /\ cal_pc' = "settle_on"
    /\ UNCHANGED <<sigan, cal_cfg, cal_steps, cal_iir_apply, cal_iir, cal_calls, cal_i,
                   noise_on, noise_off, cal_data, cal_result, cal_updates, cal_detail,
                   cal_err>>

\* time.sleep(1) after the diode is switched on
CalSettleOn ==
    /\ cal_pc = "settle_on"
    /\ cal_trace' = Append(cal_trace, "sleep")
    /\ cal_pc' = "acquire_on"
    /\ UNCHANGED <<sigan, preselector, cal_cfg, cal_steps, cal_iir_apply, cal_iir,
                   cal_calls, cal_i, noise_on, noise_off, cal_data, cal_result,
                   cal_updates, cal_detail, cal_err>>

\* the capture the signal analyzer may return for a step's parameters
Captures(params) ==
    [data : [capture : 1..MaxIQ, dtype : {"complex64"}, sos : {"none"}],
     sample_rate : {params.sample_rate, 2 * params.sample_rate}]

\* mutant: a failed diode-on acquisition is tried again
CalAcquireOn_Retry ==
    /\ cal_pc = "acquire_on"
    /\ cal_trace' = Append(cal_trace, "acquire_on")
    /\ \/ \E m \in Captures(cal_steps[cal_i]) :
            /\ noise_on' = m
            /\ cal_pc' = "diode_off"
            /\ cal_err' = cal_err
       \/ /\ Len(cal_trace) < 5
          /\ noise_on' = noise_on
          /\ cal_pc' = "acquire_on"
          /\ cal_err' = cal_err
    /\ UNCHANGED <<sigan, preselector, cal_cfg, cal_steps, cal_iir_apply, cal_iir,
                   cal_calls, cal_i, noise_off, cal_data, cal_result, cal_updates,
                   cal_detail>>

\* noise_on_measurement_result = self.sigan.acquire_time_domain_samples(...)
CalAcquireOn ==
    /\ cal_pc = "acquire_on"
    /\ cal_trace' = Append(cal_trace, "acquire_on")
    /\ \/ \E m \in Captures(cal_steps[cal_i]) :
            /\ noise_on' = m
            /\ cal_pc' = "diode_off"
            /\ cal_err' = cal_err
       \/ /\ noise_on' = noise_on
          /\ cal_pc' = "failed"
          /\ cal_err' = "AcquireError"
    /\ UNCHANGED <<sigan, preselector, cal_cfg, cal_steps, cal_iir_apply, cal_iir,
                   cal_calls, cal_i, noise_off, cal_data, cal_result, cal_updates,
                   cal_detail>>

\* mutant: the noise diode is not switched off before the second capture
CalDiodeOff_Skipped ==
    /\ cal_pc = "diode_off"
    /\ preselector' = preselector
    /\ cal_trace' = Append(cal_trace, "noise_diode_off")
    /\ cal_pc' = "settle_off"
    /\ UNCHANGED <<sigan, cal_cfg, cal_steps, cal_iir_apply, cal_iir, cal_calls, cal_i,
                   noise_on, noise_off, cal_data, cal_result, cal_updates, cal_detail,
                   cal_err>>

\* self.configure_preselector(NOISE_DIODE_OFF)
CalDiodeOff ==
    /\ cal_pc = "diode_off"
    /\ preselector' = NOISE_DIODE_OFF[RF_PATH]
    /\ cal_trace' = Append(cal_trace, "noise_diode_off")
    /\ cal_pc' = "settle_off"
    /\ UNCHANGED <<sigan, cal_cfg, cal_steps, cal_iir_apply, cal_iir, cal_calls, cal_i,
                   noise_on, noise_off, cal_data, cal_result, cal_updates, cal_detail,
                   cal_err>>

\* time.sleep(1) after the diode is switched off
CalSettleOff ==
    /\ cal_pc = "settle_off"
    /\ cal_trace' = Append(cal_trace, "sleep")
    /\ cal_pc' = "acquire_off"
    /\ UNCHANGED <<sigan, preselector, cal_cfg, cal_steps, cal_iir_apply, cal_iir,
                   cal_calls, cal_i, noise_on, noise_off, cal_data, cal_result,
                   cal_updates, cal_detail, cal_err>>

\* mutant: the sample rates are not compared
SampleRateCheck_Skipped(rate_on, rate_off) == "none"

\* the exception of the assert on the two sample rates
SampleRateCheck(rate_on, rate_off) ==
    IF rate_on = rate_off THEN "none" ELSE "AssertionError"

\* noise_off_measurement_result = ...; assert sample_rate == ...["sample_rate"]
CalAcquireOff ==
    /\ cal_pc = "acquire_off"
    /\ cal_trace' = Append(cal_trace, "acquire_off")
    /\ \/ \E m \in Captures(cal_steps[cal_i]) :
            /\ noise_off' = m
            /\ cal_err' = SampleRateCheck(noise_on.sample_rate, m.sample_rate)
            /\ cal_pc' = IF SampleRateCheck(noise_on.sample_rate, m.sample_rate) = "none"
                         THEN "filter" ELSE "failed"
       \/ /\ noise_off' = noise_off
          /\ cal_pc' = "failed"
          /\ cal_err' = "AcquireError"
    /\ UNCHANGED <<sigan, preselector, cal_cfg, cal_steps, cal_iir_apply, cal_iir,
                   cal_calls, cal_i, noise_on, cal_data, cal_result, cal_updates,
                   cal_detail>>

\* the methods and properties SignalAnalyzerInterface declares
SignalAnalyzerInterface ==
    {"last_calibration_time", "is_available", "plugin_version",
     "acquire_time_domain_samples", "connect", "healthy", "power_cycle_and_connect",
     "recompute_sensor_calibration_data", "recompute_sigan_calibration_data",
     "get_status"}

\* the keys of DEFAULT_SENSOR_CALIBRATION, which sensor_calibration_data starts as
DEFAULT_SENSOR_CALIBRATION ==
    {"datetime", "gain", "enbw", "noise_figure", "1db_compression_point", "temperature"}

\* the else branch, lines 243-250: self.sigan.recompute_calibration_data(cal_args),
\* then self.sigan.sensor_calibration_data["enbw_sensor"]
SensorEnbw ==
    IF "recompute_calibration_data" \notin SignalAnalyzerInterface
    THEN [err |-> "AttributeError", enbw_hz |-> 0]
    ELSE IF "enbw_sensor" \notin DEFAULT_SENSOR_CALIBRATION
    THEN [err |-> "KeyError", enbw_hz |-> 0]
    ELSE [err |-> "none", enbw_hz |-> 1]

\* mutant: only the diode-on capture is filtered
CalFilter_OnCaptureOnly ==
    /\ cal_pc = "filter"
    /\ IF Truthy(cal_iir_apply)
       THEN IF cal_iir.sos = "unset"
            THEN /\ cal_err' = "AttributeError"
                 /\ cal_pc' = "failed"
                 /\ UNCHANGED <<cal_data, cal_trace>>
            ELSE /\ cal_data' = [noise_on_data |-> SosFilt(cal_iir.sos, noise_on.data),
                                 noise_off_data |-> noise_off.data,
                                 enbw_hz |-> (cal_iir.cutoff_Hz + cal_iir.width_Hz) * 2]
                 /\ cal_trace' = Append(cal_trace, "filter")
                 /\ cal_pc' = "compute"
                 /\ cal_err' = cal_err
       ELSE IF SensorEnbw.err # "none"
            THEN /\ cal_err' = SensorEnbw.err
                 /\ cal_pc' = "failed"
                 /\ UNCHANGED <<cal_data, cal_trace>>
            ELSE /\ cal_data' = [noise_on_data |-> noise_on.data,
                                 noise_off_data |-> noise_off.data,
                                 enbw_hz |-> SensorEnbw.enbw_hz]
                 /\ cal_pc' = "compute"
                 /\ cal_err' = cal_err
                 /\ UNCHANGED cal_trace
    /\ UNCHANGED <<sigan, preselector, cal_cfg, cal_steps, cal_iir_apply, cal_iir,
                   cal_calls, cal_i, noise_on, noise_off, cal_result, cal_updates,
                   cal_detail>>

\* lines 235-250: filter both captures with self.iir_sos, or take them as they
\* are and look the ENBW up in the sensor calibration
CalFilter ==
    /\ cal_pc = "filter"
    /\ IF Truthy(cal_iir_apply)
       THEN IF cal_iir.sos = "unset"
            THEN /\ cal_err' = "AttributeError"
                 /\ cal_pc' = "failed"
                 /\ UNCHANGED <<cal_data, cal_trace>>
            ELSE /\ cal_data' = [noise_on_data |-> SosFilt(cal_iir.sos, noise_on.data),
                                 noise_off_data |-> SosFilt(cal_iir.sos, noise_off.data),
                                 enbw_hz |-> (cal_iir.cutoff_Hz + cal_iir.width_Hz) * 2]
                 /\ cal_trace' = Append(cal_trace, "filter")
                 /\ cal_pc' = "compute"
                 /\ cal_err' = cal_err
       ELSE IF SensorEnbw.err # "none"
            THEN /\ cal_err' = SensorEnbw.err
                 /\ cal_pc' = "failed"
                 /\ UNCHANGED <<cal_data, cal_trace>>
            ELSE /\ cal_data' = [noise_on_data |-> noise_on.data,
                                 noise_off_data |-> noise_off.data,
                                 enbw_hz |-> SensorEnbw.enbw_hz]
                 /\ cal_pc' = "compute"
                 /\ cal_err' = cal_err
                 /\ UNCHANGED cal_trace
    /\ UNCHANGED <<sigan, preselector, cal_cfg, cal_steps, cal_iir_apply, cal_iir,
                   cal_calls, cal_i, noise_on, noise_off, cal_result, cal_updates,
                   cal_detail>>

\* mutant: an exception of y_factor is swallowed and the step goes on to the update
CalCompute_SwallowError ==
    /\ cal_pc = "compute"
    /\ LET params == cal_steps[cal_i]
           pwr_on_watts == calculate_power_watts(cal_data.noise_on_data)
           pwr_off_watts == calculate_power_watts(cal_data.noise_off_data)
           enr_linear == get_linear_enr(params.cal_source_idx)
           temp == get_temperature(params.temp_sensor_idx)
           yf == y_factor(pwr_on_watts, pwr_off_watts, enr_linear, cal_data.enbw_hz, temp[1])
       IN /\ cal_trace' = Append(cal_trace, "y_factor")
          /\ cal_result' = [noise_figure |-> yf.noise_figure, gain |-> yf.gain,
                            temp_c |-> temp[2]]
          /\ cal_pc' = "persist"
          /\ cal_err' = cal_err
    /\ UNCHANGED <<sigan, preselector, cal_cfg, cal_steps, cal_iir_apply, cal_iir,
                   cal_calls, cal_i, noise_on, noise_off, cal_data, cal_updates,
                   cal_detail>>

\* lines 252-261: the two powers, the ENR, the temperature and y_factor
CalCompute ==
    /\ cal_pc = "compute"
    /\ LET params == cal_steps[cal_i]
           pwr_on_watts == calculate_power_watts(cal_data.noise_on_data)
           pwr_off_watts == calculate_power_watts(cal_data.noise_off_data)
           enr_linear == get_linear_enr(params.cal_source_idx)
           temp == get_temperature(params.temp_sensor_idx)
           yf == y_factor(pwr_on_watts, pwr_off_watts, enr_linear, cal_data.enbw_hz, temp[1])
       IN /\ cal_trace' = Append(cal_trace, "y_factor")
          /\ IF yf.err # "none"
             THEN /\ cal_err' = yf.err
                  /\ cal_pc' = "failed"
                  /\ cal_result' = cal_result
             ELSE /\ cal_result' = [noise_figure |-> yf.noise_figure, gain |-> yf.gain,
                                    temp_c |-> temp[2]]
                  /\ cal_pc' = "persist"
                  /\ cal_err' = cal_err
    /\ UNCHANGED <<sigan, preselector, cal_cfg, cal_steps, cal_iir_apply, cal_iir,
                   cal_calls, cal_i, noise_on, noise_off, cal_data, cal_updates,
                   cal_detail>>

\* mutant: the update is keyed by the first step's parameter set
CalPersist_FirstStepKey ==
    /\ cal_pc = "persist"
    /\ cal_updates' = Append(cal_updates,
                             [call |-> cal_calls, params |-> cal_steps[1],
                              gain |-> cal_result.gain,
                              noise_figure |-> cal_result.noise_figure,
                              temp_c |-> cal_result.temp_c])
    /\ cal_trace' = Append(cal_trace, "update")
    /\ cal_pc' = "return"
    /\ UNCHANGED <<sigan, preselector, cal_cfg, cal_steps, cal_iir_apply, cal_iir,
                   cal_calls, cal_i, noise_on, noise_off, cal_data, cal_result,
                   cal_detail, cal_err>>

\* sensor_calibration.update(params, now, gain, noise_figure, temp_c, file)
CalPersist ==
    /\ cal_pc = "persist"
    /\ cal_updates' = Append(cal_updates,
                             [call |-> cal_calls, params |-> cal_steps[cal_i],
                              gain |-> cal_result.gain,
                              noise_figure |-> cal_result.noise_figure,
                              temp_c |-> cal_result.temp_c])
    /\ cal_trace' = Append(cal_trace, "update")
    /\ cal_pc' = "return"
    /\ UNCHANGED <<sigan, preselector, cal_cfg, cal_steps, cal_iir_apply, cal_iir,
                   cal_calls, cal_i, noise_on, noise_off, cal_data, cal_result,
                   cal_detail, cal_err>>

\* the string calibrate returns, 'Noise Figure: {}, Gain: {}'.format(noise_figure, gain)
ResultString(noise_figure, gain) == <<"Noise Figure", noise_figure, "Gain", gain>>

\* mutant: the result strings are concatenated without the line separator
CalReturn_NoSeparator ==
    /\ cal_pc = "return"
    /\ cal_detail' = Append(cal_detail,
                            ResultString(cal_result.noise_figure, cal_result.gain))
    /\ IF cal_i < Len(cal_steps)
       THEN cal_i' = cal_i + 1 /\ cal_pc' = "configure"
       ELSE cal_i' = cal_i /\ cal_pc' = "done"
    /\ UNCHANGED <<sigan, preselector, cal_cfg, cal_steps, cal_iir_apply, cal_iir,
                   cal_calls, noise_on, noise_off, cal_data, cal_result, cal_trace,
                   cal_updates, cal_err>>

\* calibrate returns its result string; __call__ adds it to detail, after
\* os.linesep for every step but the first, and goes on
CalReturn ==
    /\ cal_pc = "return"
    /\ cal_detail' = IF cal_i = 1
                     THEN cal_detail \o
                          <<ResultString(cal_result.noise_figure, cal_result.gain)>>
                     ELSE cal_detail \o
                          <<"linesep",
                            ResultString(cal_result.noise_figure, cal_result.gain)>>
    /\ IF cal_i < Len(cal_steps)
       THEN cal_i' = cal_i + 1 /\ cal_pc' = "configure"
       ELSE cal_i' = cal_i /\ cal_pc' = "done"
    /\ UNCHANGED <<sigan, preselector, cal_cfg, cal_steps, cal_iir_apply, cal_iir,
                   cal_calls, noise_on, noise_off, cal_data, cal_result, cal_trace,
                   cal_updates, cal_err>>

\* ------------------------------------- get_td_power_results, block arithmetic
\* the sample rates, in Hz, the block arithmetic is evaluated for
TdSampleRates == {500, 1000, 2000}

TdArgs == [iqdata_len : 0..MaxSamples, td_bin_size_ms : 1..MaxBinMs,
           sample_rate : TdSampleRates]

NoTdRet == [status |-> "pending", err |-> "none", block_size |-> 0, n_blocks |-> 0,
            shape |-> <<>>]

TdInit(args) ==
    /\ td_args \in args
    /\ td_ret = NoTdRet

\* ndarray.reshape(rows, cols) of a one-dimensional array of the given size:
\* the new shape must hold exactly size elements
Reshape(size, rows, cols) ==
    IF rows * cols = size THEN [err |-> "none", shape |-> <<rows, cols>>]
    ELSE [err |-> "ValueError", shape |-> <<>>]

\* get_td_power_results, lines 307-312: block_size, n_blocks, iqdata.reshape
TdBlocks(iqdata_len, params) ==
    LET block_size == (params.td_bin_size_ms * params.sample_rate) \div 1000 IN
    IF block_size = 0
    THEN [status |-> "raised", err |-> "ZeroDivisionError", block_size |-> 0,
          n_blocks |-> 0, shape |-> <<>>]
    ELSE LET n_blocks == iqdata_len \div block_size
             reshaped == Reshape(iqdata_len, n_blocks, block_size)
         IN  [status |-> IF reshaped.err = "none" THEN "reshaped" ELSE "raised",
              err |-> reshaped.err, block_size |-> block_size, n_blocks |-> n_blocks,
              shape |-> reshaped.shape]

\* one evaluation of get_td_power_results up to the reshape
TdReshape ==
    /\ td_ret.status = "pending"
    /\ td_ret' = TdBlocks(td_args.iqdata_len, td_args)
    /\ UNCHANGED td_args

\* ------------------------------------------- SteppedFrequencyFftAcquisition
\* the values of nffts and fft_size a step may be configured with
FftNffts == {1, 2}
FftSizes == {2, 4}

\* one per-step parameter set; step k of a configuration is tuned to frequency k
FftParams(k, nffts, fft_size) == [frequency |-> k, nffts |-> nffts, fft_size |-> fft_size]

FftStepSets ==
    UNION { { [k \in 1..n |-> FftParams(k, nf[k], fs[k])] :
                nf \in [1..n -> FftNffts], fs \in [1..n -> FftSizes] } :
            n \in 1..MaxSteps }

\* CaptureSegment(sample_start, global_index, frequency, ...)
CaptureSegment(sample_start, global_index, frequency) ==
    [sample_start |-> sample_start, global_index |-> global_index, frequency |-> frequency]

NoFftResult == [num_samples |-> 0, capture_segment |-> CaptureSegment(0, 0, 0)]

\* an entry of the log of __call__
FftEv(e, id, mr, m4s) == [ev |-> e, recording_id |-> id, mr |-> mr, m4s |-> m4s]

FftInit(stepsets) ==
    /\ iterable_params \in stepsets
    /\ fft_pc = "idle"
    /\ fft_calls = 0
    /\ recording_id = 0
    /\ saved_samples = 0
    /\ fft_mr = NoFftResult
    /\ m4s_result = 0
    /\ fft_log = <<>>
    /\ fft_err = "none"

\* mutant: saved_samples is kept from the previous invocation
FftCall_KeepCounter ==
    /\ fft_pc \in {"idle", "done", "failed"}
    /\ fft_calls < MaxCalls
    /\ fft_calls' = fft_calls + 1
    /\ fft_log' = <<>>
    /\ saved_samples' = saved_samples
    /\ fft_mr' = NoFftResult
    /\ m4s_result' = 0
    /\ IF ~sigan.is_available
       THEN fft_err' = "RuntimeError" /\ fft_pc' = "failed" /\ recording_id' = 0
       ELSE fft_err' = "none" /\ fft_pc' = "acquire" /\ recording_id' = 1
    /\ UNCHANGED <<sigan, iterable_params>>

\* __call__ up to the loop: test_required_components (inherited; as in the other
\* actions it raises RuntimeError when the signal analyzer is not available),
\* saved_samples = 0
FftCall ==
    /\ fft_pc \in {"idle", "done", "failed"}
    /\ fft_calls < MaxCalls
    /\ fft_calls' = fft_calls + 1
    /\ fft_log' = <<>>
    /\ saved_samples' = 0
    /\ fft_mr' = NoFftResult
    /\ m4s_result' = 0
    /\ IF ~sigan.is_available
       THEN fft_err' = "RuntimeError" /\ fft_pc' = "failed" /\ recording_id' = 0
       ELSE fft_err' = "none" /\ fft_pc' = "acquire" /\ recording_id' = 1
    /\ UNCHANGED <<sigan, iterable_params>>

\* lines 103-117: configure, num_samples = nffts * fft_size, acquire_data, which
\* returns or raises
FftAcquire ==
    /\ fft_pc = "acquire"
    /\ LET measurement_params == iterable_params[recording_id]
           num_samples == measurement_params.nffts * measurement_params.fft_size
           requested == [NoFftResult EXCEPT !.num_samples = num_samples]
       IN /\ sigan' = ConfigureSigan(sigan, measurement_params)
          /\ fft_log' = fft_log \o <<FftEv("configure", recording_id, NoFftResult, 0),
                                     FftEv("acquire", recording_id, requested, 0)>>
          /\ \/ /\ fft_mr' = requested
                /\ fft_pc' = "m4s"
                /\ fft_err' = fft_err
             \/ /\ fft_mr' = fft_mr
                /\ fft_pc' = "failed"
                /\ fft_err' = "AcquireError"
    /\ UNCHANGED <<iterable_params, fft_calls, recording_id, saved_samples, m4s_result>>

\* lines 118-131: apply_m4s, whose result has some number of elements, and the
\* capture segment
FftApplyM4s ==
    /\ fft_pc = "m4s"
    /\ \E n \in 1..MaxM4s : m4s_result' = n
    /\ fft_mr' = [fft_mr EXCEPT !.capture_segment =
                     CaptureSegment(0, saved_samples, iterable_params[recording_id].frequency)]
    /\ fft_log' = Append(fft_log, FftEv("m4s", recording_id, fft_mr, m4s_result'))
    /\ fft_pc' = "metadata"
    /\ UNCHANGED <<sigan, iterable_params, fft_calls, recording_id, saved_samples, fft_err>>

\* self.create_metadata(measurement_result, recording_id)
FftCreateMetadata ==
    /\ fft_pc = "metadata"
    /\ fft_log' = Append(fft_log, FftEv("metadata", recording_id, fft_mr, m4s_result))
    /\ fft_pc' = "signal"
    /\ UNCHANGED <<sigan, iterable_params, fft_calls, recording_id, saved_samples, fft_mr,
                   m4s_result, fft_err>>

\* measurement_action_completed.send(...); saved_samples += len(m4s_result.ravel())
FftSendSignal ==
    /\ fft_pc = "signal"
    /\ fft_log' = Append(fft_log, FftEv("signal", recording_id, fft_mr, m4s_result))
    /\ saved_samples' = saved_samples + m4s_result
    /\ IF recording_id < Len(iterable_params)
       THEN recording_id' = recording_id + 1 /\ fft_pc' = "acquire"
       ELSE recording_id' = recording_id /\ fft_pc' = "done"
    /\ UNCHANGED <<sigan, iterable_params, fft_calls, fft_mr, m4s_result, fft_err>>

\* ---------------------------------- SteppedFrequencyTimeDomainIqAcquisition
\* the durations, in ms, a step may be configured with
TdqDurations == {1, 2}

\* the non-empty lists of at most MaxSteps values
Lists(values) == UNION { [1..n -> values] : n \in 1..MaxSteps }

\* the configuration: one list per key (the sample rate, in Hz, is the same for
\* every frequency), lists that may differ in length
TdqConfigs ==
    { [name |-> <<"name">>, frequency |-> f, duration_ms |-> d,
       sample_rate |-> [k \in 1..Len(f) |-> 1000]] :
        f \in Lists(1..MaxFreq), d \in Lists(TdqDurations) }

NoTdqResult == [params |-> [frequency |-> 0, duration_ms |-> 0, sample_rate |-> 0],
                num_samples |-> 0]

\* an entry of the log of __call__
TdqEv(e, id, mr) == [ev |-> e, recording_id |-> id, mr |-> mr]

TdqInit(configs) ==
    /\ tdq_parameters \in configs
    /\ sorted_measurement_parameters = <<>>
    /\ num_center_frequencies = 0
    /\ tdq_pc = "new"
    /\ tdq_calls = 0
    /\ tdq_recording_id = 0
    /\ tdq_mr = NoTdqResult
    /\ tdq_log = <<>>
    /\ tdq_err = "none"

\* zip(*parameters.values()) stops at the end of the shortest list
ShortestLen(parameters) ==
    CHOOSE n \in {Len(parameters[key]) : key \in DOMAIN parameters} :
        \A key \in DOMAIN parameters : n <= Len(parameters[key])

\* mutant: the durations are paired with the frequencies from the other end
ZipParameters_Misaligned(parameters) ==
    [k \in 1..ShortestLen(parameters) |->
        [key \in DOMAIN parameters |->
            IF key = DURATION_MS
            THEN parameters[key][ShortestLen(parameters) + 1 - k]
            ELSE parameters[key][k]]]

\* [dict(zip(parameters, v)) for v in zip(*parameters.values())]
ZipParameters(parameters) ==
    [k \in 1..ShortestLen(parameters) |-> [key \in DOMAIN parameters |-> parameters[key][k]]]

\* list.sort(key=lambda params: params[FREQUENCY]): ascending and stable
InsertByFrequency(x, sorted) ==
    LET n == Cardinality({j \in 1..Len(sorted) : sorted[j].frequency <= x.frequency})
    IN  SubSeq(sorted, 1, n) \o <<x>> \o SubSeq(sorted, n + 1, Len(sorted))

RECURSIVE SortByFrequency(_)
SortByFrequency(list) ==
    IF list = <<>> THEN <<>>
    ELSE InsertByFrequency(list[Len(list)], SortByFrequency(SubSeq(list, 1, Len(list) - 1)))

\* __init__, lines 83-92
TdqConstruct ==
    /\ tdq_pc = "new"
    /\ num_center_frequencies' = Len(tdq_parameters[FREQUENCY])
    /\ tdq_parameters' = Without(tdq_parameters, {"name"})
    /\ sorted_measurement_parameters' = SortByFrequency(ZipParameters(tdq_parameters'))
    /\ tdq_pc' = "idle"
    /\ UNCHANGED <<sigan, tdq_calls, tdq_recording_id, tdq_mr, tdq_log, tdq_err>>

\* __call__ up to the loop: test_required_components (inherited; as in the other
\* actions it raises RuntimeError when the signal analyzer is not available)
TdqCall ==
    /\ tdq_pc \in {"idle", "done", "failed"}
    /\ tdq_calls < MaxCalls
    /\ tdq_calls' = tdq_calls + 1
    /\ tdq_log' = <<>>
    /\ tdq_mr' = NoTdqResult
    /\ IF ~sigan.is_available
       THEN tdq_err' = "RuntimeError" /\ tdq_pc' = "failed" /\ tdq_recording_id' = 0
       ELSE /\ tdq_err' = "none"
            /\ tdq_pc' = IF sorted_measurement_parameters = <<>> THEN "done" ELSE "acquire"
            /\ tdq_recording_id' = IF sorted_measurement_parameters = <<>> THEN 0 ELSE 1
    /\ UNCHANGED <<sigan, tdq_parameters, sorted_measurement_parameters,
                   num_center_frequencies>>

\* lines 101-108: configure, num_samples from the sigan's sample rate and the
\* step's duration, acquire_data, which returns or raises
TdqAcquire ==
    /\ tdq_pc = "acquire"
    /\ LET measurement_params == sorted_measurement_parameters[tdq_recording_id]
           configured == ConfigureSigan(sigan, measurement_params)
           num_samples == (configured.sample_rate * measurement_params.duration_ms) \div 1000
           requested == [params |-> measurement_params, num_samples |-> num_samples]
       IN /\ sigan' = configured
          /\ tdq_log' = tdq_log \o <<TdqEv("configure", tdq_recording_id, requested),
                                     TdqEv("acquire", tdq_recording_id, requested)>>
          /\ \/ /\ tdq_mr' = requested
                /\ tdq_pc' = "metadata"
                /\ tdq_err' = tdq_err
             \/ /\ tdq_mr' = tdq_mr
                /\ tdq_pc' = "failed"
                /\ tdq_err' = "AcquireError"
    /\ UNCHANGED <<tdq_parameters, sorted_measurement_parameters, num_center_frequencies,
                   tdq_calls, tdq_recording_id>>

\* lines 109-122: the fields of measurement_result, get_sigmf_builder, create_metadata
TdqCreateMetadata ==
    /\ tdq_pc = "metadata"
    /\ tdq_log' = Append(tdq_log, TdqEv("metadata", tdq_recording_id, tdq_mr))
    /\ tdq_pc' = "signal"
    /\ UNCHANGED <<sigan, tdq_parameters, sorted_measurement_parameters,
                   num_center_frequencies, tdq_calls, tdq_recording_id, tdq_mr, tdq_err>>

\* measurement_action_completed.send(...), then the next iteration or the end
TdqSendSignal ==
    /\ tdq_pc = "signal"
    /\ tdq_log' = Append(tdq_log, TdqEv("signal", tdq_recording_id, tdq_mr))
    /\ IF tdq_recording_id < Len(sorted_measurement_parameters)
       THEN tdq_recording_id' = tdq_recording_id + 1 /\ tdq_pc' = "acquire"
       ELSE tdq_recording_id' = tdq_recording_id /\ tdq_pc' = "done"
    /\ UNCHANGED <<sigan, tdq_parameters, sorted_measurement_parameters,
                   num_center_frequencies, tdq_calls, tdq_mr, tdq_err>>

\* ------------------------------------------------- Action.configure_sigan
\* the keys of a measurement-parameter dictionary: two attributes of the signal
\* analyzer and one key it has no attribute for
CfgKeys == {"frequency", "sample_rate", "duration_ms"}

\* dictionaries in insertion order, of at most max keys: sequences of
\* <<key, value>> with distinct keys
CfgDictsOf(max) ==
    UNION { { d \in [1..n -> CfgKeys \X (1..MaxFreq)] :
                \A i, j \in 1..n : i # j => d[i][1] # d[j][1] } :
            n \in 0..max }

CfgDicts == CfgDictsOf(MaxCfgKeys)

\* the values configure_sigan is called with: a dict, a list of dicts (of at
\* most one key each), or a value that is neither (None, a bool)
CfgParams ==
    { [kind |-> "dict", items |-> <<d>>] : d \in CfgDicts }
    \cup { [kind |-> "list", items |-> l] :
             l \in UNION { [1..n -> CfgDictsOf(1)] : n \in 0..MaxCfgItems } }
    \cup { [kind |-> "other", items |-> <<>>] }

CfgInit(params) ==
    /\ cfg_params \in params
    /\ cfg_pc = "pending"
    /\ cfg_before = [is_available |-> FALSE, frequency |-> 0, sample_rate |-> 0,
                     preamp_enable |-> FALSE]
    /\ cfg_warnings = <<>>
    /\ cfg_err = "none"

\* hasattr(obj, key)
HasAttr(obj, key) == key \in DOMAIN obj

\* setattr(obj, key, value)
SetAttr(obj, key, value) ==
    [a \in (DOMAIN obj) \cup {key} |-> IF a = key THEN value ELSE obj[a]]

RECURSIVE ConfigureSiganWithDictionary(_, _, _)

\* mutant: an unknown key raises instead of being logged
ConfigureSiganWithDictionary_FailFast(st, dictionary, k) ==
    IF k > Len(dictionary) \/ st.err # "none" THEN st
    ELSE LET key == dictionary[k][1]
             value == dictionary[k][2]
         IN  ConfigureSiganWithDictionary(
                 IF HasAttr(st.sigan, key)
                 THEN [st EXCEPT !.sigan = SetAttr(st.sigan, key, value)]
                 ELSE [st EXCEPT !.err = "AttributeError"],
                 dictionary, k + 1)

\* Action.configure_sigan_with_dictionary from the k-th item of the dictionary
\* on: set the attribute the sigan has, log a warning for a key it has not
ConfigureSiganWithDictionary(st, dictionary, k) ==
    IF k > Len(dictionary) \/ st.err # "none" THEN st
    ELSE LET key == dictionary[k][1]
             value == dictionary[k][2]
         IN  ConfigureSiganWithDictionary(
                 IF HasAttr(st.sigan, key)
                 THEN [st EXCEPT !.sigan = SetAttr(st.sigan, key, value)]
                 ELSE [st EXCEPT !.warnings = Append(st.warnings, key)],
                 dictionary, k + 1)

\* the loop of configure_sigan over a list, from its k-th item on
RECURSIVE ConfigureSiganItems(_, _, _)
ConfigureSiganItems(st, items, k) ==
    IF k > Len(items) \/ st.err # "none" THEN st
    ELSE ConfigureSiganItems(ConfigureSiganWithDictionary(st, items[k], 1), items, k + 1)

\* Action.configure_sigan on any value: a list, a dict, or neither
ConfigureSiganAny(st, measurement_params) ==
    IF measurement_params.kind = "list"
    THEN ConfigureSiganItems(st, measurement_params.items, 1)
    ELSE IF measurement_params.kind = "dict"
    THEN ConfigureSiganWithDictionary(st, measurement_params.items[1], 1)
    ELSE st

\* one invocation of configure_sigan(measurement_params)
CfgConfigureSigan ==
    /\ cfg_pc = "pending"
    /\ cfg_before' = sigan
    /\ LET st == ConfigureSiganAny([sigan |-> sigan, warnings |-> <<>>, err |-> "none"],
                                   cfg_params)
       IN  /\ sigan' = st.sigan
           /\ cfg_warnings' = st.warnings
           /\ cfg_err' = st.err
    /\ cfg_pc' = "done"
    /\ UNCHANGED cfg_params

\* ------------------- SignalAnalyzerInterface.healthy, power_cycle_and_connect
NoAcquisition == [outcome |-> "none", len |-> 0]

\* the default of healthy's num_samples is 56000; the model calls it with small requests
HealthyRequests == 0..MaxSamples

\* sleep_time: a negative value makes time.sleep raise ValueError
SleepTimes == {-1, 0, 2}

SiInit ==
    /\ si_pc = "idle"
    /\ si_calls = 0
    /\ h_num_samples = 0
    /\ h_is_available = "unread"
    /\ h_acquires = <<>>
    /\ h_result = NoAcquisition
    /\ h_ret = "pending"
    /\ pcc_sleep_time = 0
    /\ pcc_log = <<>>
    /\ pcc_ret = "pending"

\* healthy(num_samples) is entered
HealthyCall ==
    /\ si_pc = "idle"
    /\ si_calls < MaxCalls
    /\ si_calls' = si_calls + 1
    /\ \E n \in HealthyRequests : h_num_samples' = n
    /\ h_is_available' = "unread"
    /\ h_acquires' = <<>>
    /\ h_result' = NoAcquisition
    /\ h_ret' = "pending"
    /\ si_pc' = "h_available"
    /\ UNCHANGED <<sigan, pcc_sleep_time, pcc_log, pcc_ret>>

\* if not self.is_available: return False
HealthyAvailable ==
    /\ si_pc = "h_available"
    /\ h_is_available' = IF sigan.is_available THEN "True" ELSE "False"
    /\ IF sigan.is_available
       THEN si_pc' = "h_acquire" /\ h_ret' = h_ret
       ELSE si_pc' = "idle" /\ h_ret' = "False"
    /\ UNCHANGED <<sigan, si_calls, h_num_samples, h_acquires, h_result, pcc_sleep_time,
                   pcc_log, pcc_ret>>

\* the try block: acquire_time_domain_samples(num_samples, cal_adjust=False) and
\* measurement_result["data"]; any Exception is logged and gives False
HealthyAcquire ==
    /\ si_pc = "h_acquire"
    /\ h_acquires' = Append(h_acquires, [num_samples |-> h_num_samples,
                                         num_samples_skip |-> 0, retries |-> 5,
                                         cal_adjust |-> FALSE])
    /\ \/ \E n \in 0..MaxSamples :
            /\ h_result' = [outcome |-> "data", len |-> n]
            /\ si_pc' = "h_length"
            /\ h_ret' = h_ret
       \/ \E e \in {"Exception", "KeyError"} :
            /\ h_result' = [outcome |-> e, len |-> 0]
            /\ si_pc' = "idle"
            /\ h_ret' = "False"
    /\ UNCHANGED <<sigan, si_calls, h_num_samples, h_is_available, pcc_sleep_time,
                   pcc_log, pcc_ret>>

\* mutant: a buffer longer than the request passes the health check
HealthyLength_AtLeast ==
    /\ si_pc = "h_length"
    /\ h_ret' = IF h_result.len >= h_num_samples THEN "True" ELSE "False"
    /\ si_pc' = "idle"
    /\ UNCHANGED <<sigan, si_calls, h_num_samples, h_is_available, h_acquires, h_result,
                   pcc_sleep_time, pcc_log, pcc_ret>>

\* if not len(data) == num_samples: return False; return True
HealthyLength ==
    /\ si_pc = "h_length"
    /\ h_ret' = IF h_result.len = h_num_samples THEN "True" ELSE "False"
    /\ si_pc' = "idle"
    /\ UNCHANGED <<sigan, si_calls, h_num_samples, h_is_available, h_acquires, h_result,
                   pcc_sleep_time, pcc_log, pcc_ret>>

\* power_cycle_and_connect(sleep_time) is entered
PccCall ==
    /\ si_pc = "idle"
    /\ si_calls < MaxCalls
    /\ si_calls' = si_calls + 1
    /\ \E t \in SleepTimes : pcc_sleep_time' = t
    /\ pcc_log' = <<>>
    /\ pcc_ret' = "pending"
    /\ si_pc' = "pcc_cycle"
    /\ UNCHANGED <<sigan, h_num_samples, h_is_available, h_acquires, h_result, h_ret>>

\* mutant: a failed power cycle is followed by the reconnect all the same
PccPowerCycle_IgnoreFailure ==
    /\ si_pc = "pcc_cycle"
    /\ \/ /\ pcc_log' = Append(pcc_log, <<"power_cycle_sigan", "returned">>)
          /\ si_pc' = "pcc_sleep"
          /\ pcc_ret' = pcc_ret
       \/ /\ pcc_log' = Append(pcc_log, <<"power_cycle_sigan",
                                          "HardwareConfigurationException">>)
          /\ si_pc' = "pcc_sleep"
          /\ pcc_ret' = pcc_ret
       \/ /\ pcc_log' = Append(pcc_log, <<"power_cycle_sigan", "Exception">>)
          /\ si_pc' = "idle"
          /\ pcc_ret' = "raised"
    /\ UNCHANGED <<sigan, si_calls, h_num_samples, h_is_available, h_acquires, h_result,
                   h_ret, pcc_sleep_time>>

\* the first try: power_cycle_sigan(); a HardwareConfigurationException is
\* logged and the method returns, any other exception leaves the method
PccPowerCycle ==
    /\ si_pc = "pcc_cycle"
    /\ \/ /\ pcc_log' = Append(pcc_log, <<"power_cycle_sigan", "returned">>)
          /\ si_pc' = "pcc_sleep"
          /\ pcc_ret' = pcc_ret
       \/ /\ pcc_log' = Append(pcc_log, <<"power_cycle_sigan",
                                          "HardwareConfigurationException">>)
          /\ si_pc' = "idle"
          /\ pcc_ret' = "returned"
       \/ /\ pcc_log' = Append(pcc_log, <<"power_cycle_sigan", "Exception">>)
          /\ si_pc' = "idle"
          /\ pcc_ret' = "raised"
    /\ UNCHANGED <<sigan, si_calls, h_num_samples, h_is_available, h_acquires, h_result,
                   h_ret, pcc_sleep_time>>

\* the second try, time.sleep(sleep_time): a ValueError is logged and the
\* method returns
PccSleep ==
    /\ si_pc = "pcc_sleep"
    /\ IF pcc_sleep_time < 0
       THEN /\ pcc_log' = Append(pcc_log, <<"sleep", "ValueError">>)
            /\ si_pc' = "idle"
            /\ pcc_ret' = "returned"
       ELSE /\ pcc_log' = Append(pcc_log, <<"sleep", "returned">>)
            /\ si_pc' = "pcc_connect"
            /\ pcc_ret' = pcc_ret
    /\ UNCHANGED <<sigan, si_calls, h_num_samples, h_is_available, h_acquires, h_result,
                   h_ret, pcc_sleep_time>>

\* the second try, self.connect(): it returns, with the signal analyzer
\* available or not, or its exception is logged; the method returns
PccConnect ==
    /\ si_pc = "pcc_connect"
    /\ \/ /\ pcc_log' = Append(pcc_log, <<"connect", "returned">>)
          /\ \E b \in BOOLEAN : sigan' = [sigan EXCEPT !.is_available = b]
       \/ /\ pcc_log' = Append(pcc_log, <<"connect", "Exception">>)
          /\ sigan' = sigan
    /\ si_pc' = "idle"
    /\ pcc_ret' = "returned"
    /\ UNCHANGED <<si_calls, h_num_samples, h_is_available, h_acquires, h_result, h_ret,
                   pcc_sleep_time>>

\* ------------------ SignalAnalyzerInterface.recompute_sensor_calibration_data
\* DEFAULT_SENSOR_CALIBRATION as a dict: every key with its default value
DefaultSensorCalibration == [k \in DEFAULT_SENSOR_CALIBRATION |-> <<k, 0>>]

\* the calibration parameters a recompute is asked for
CalArgs == 1..MaxFreq

\* sensor_calibration.get_calibration_dict(cal_args): the entries looked up for
\* the calibration parameters
get_calibration_dict(cal_args) ==
    [k \in {"gain", "enbw", "noise_figure", "1db_compression_point"} |-> <<k, cal_args>>]

\* dict.update
Update(d, other) ==
    [k \in (DOMAIN d) \cup (DOMAIN other) |-> IF k \in DOMAIN other THEN other[k] ELSE d[k]]

RcInit(calibrations) ==
    /\ sensor_calibration \in calibrations
    /\ sensor_calibration_data = DefaultSensorCalibration
    /\ rc_pc = "idle"
    /\ rc_calls = 0
    /\ rc_cal_args = 0
    /\ rc_before = DefaultSensorCalibration
    /\ rc_err = "none"
    /\ observed = {}

\* recompute_sensor_calibration_data(cal_args) is entered
RecomputeCall ==
    /\ rc_pc = "idle"
    /\ rc_calls < MaxCalls
    /\ rc_calls' = rc_calls + 1
    /\ \E a \in CalArgs : rc_cal_args' = a
    /\ rc_before' = sensor_calibration_data
    /\ rc_err' = "none"
    /\ rc_pc' = "copy"
    /\ UNCHANGED <<sensor_calibration, sensor_calibration_data, observed>>

\* self.sensor_calibration_data = self.DEFAULT_SENSOR_CALIBRATION.copy()
RecomputeCopyDefaults ==
    /\ rc_pc = "copy"
    /\ sensor_calibration_data' = DefaultSensorCalibration
    /\ rc_pc' = "update"
    /\ UNCHANGED <<sensor_calibration, rc_calls, rc_cal_args, rc_before, rc_err, observed>>

\* if sensor_calibration is not None: self.sensor_calibration_data.update(
\* sensor_calibration.get_calibration_dict(cal_args)); the lookup may raise
RecomputeUpdate ==
    /\ rc_pc = "update"
    /\ IF sensor_calibration = "None"
       THEN UNCHANGED <<sensor_calibration_data, rc_err>>
       ELSE \/ /\ sensor_calibration_data' =
                    Update(sensor_calibration_data, get_calibration_dict(rc_cal_args))
               /\ rc_err' = rc_err
            \/ /\ sensor_calibration_data' = sensor_calibration_data
               /\ rc_err' = "Exception"
    /\ rc_pc' = "idle"
    /\ UNCHANGED <<sensor_calibration, rc_calls, rc_cal_args, rc_before, observed>>

\* the data a recompute for cal_args ends with when it returns
RecomputedData(cal_args) ==
    IF sensor_calibration = "None" THEN DefaultSensorCalibration
    ELSE Update(DefaultSensorCalibration, get_calibration_dict(cal_args))

\* another thread reads self.sigan.sensor_calibration_data, as
\* measurement_result['sensor_cal'] = self.sigan.sensor_calibration_data does
ReadSensorCal ==
    /\ observed' = observed \cup
          {[value |-> sensor_calibration_data,
            before |-> IF rc_pc = "idle" THEN sensor_calibration_data ELSE rc_before,
            after |-> IF rc_pc = "idle" THEN sensor_calibration_data
                      ELSE RecomputedData(rc_cal_args)]}
    /\ UNCHANGED <<sensor_calibration, sensor_calibration_data, rc_pc, rc_calls,
                   rc_cal_args, rc_before, rc_err>>

\* --------------------------------------------------------- specifications
vars == <<sigan, preselector, sea_vars, cal_vars, td_vars, fft_vars, tdq_vars, cfg_vars, si_vars, rc_vars>>

\* a NasctnSeaDataProduct instance under the scheduler; the calibration action is not constructed
InitSea ==
    /\ sigan \in SiganInit
    /\ preselector = "none"
    /\ SeaInit(SeaStepSets)
    /\ CalInit({[iir_apply |-> "False", iir_params_list |-> FALSE, iir_cutoff_Hz |-> 5,
                  iir_width_Hz |-> 1, steps |-> <<CalParams(1, FALSE)>>]})
    /\ TdInit({[iqdata_len |-> 0, td_bin_size_ms |-> 1, sample_rate |-> 1000]})
    /\ FftInit({<<FftParams(1, 1, 2)>>})
    /\ TdqInit({[name |-> <<"name">>, frequency |-> <<1>>, duration_ms |-> <<1>>,
                  sample_rate |-> <<1000>>]})
    /\ CfgInit({[kind |-> "other", items |-> <<>>]})
    /\ SiInit
    /\ RcInit({"loaded"})

NextSea ==
    \/ SeaCall /\ UNCHANGED sea_others
    \/ SeaCaptureIq /\ UNCHANGED sea_others
    \/ GdpBegin /\ UNCHANGED sea_others
    \/ GdpFft /\ UNCHANGED sea_others
    \/ GdpFilter /\ UNCHANGED sea_others
    \/ GdpTd /\ UNCHANGED sea_others
    \/ GdpApd /\ UNCHANGED sea_others
    \/ GdpRound /\ UNCHANGED sea_others
    \/ GdpNarrow /\ UNCHANGED sea_others
    \/ SeaStoreProduct /\ UNCHANGED sea_others
    \/ SeaSendSignal /\ UNCHANGED sea_others

SpecSea == InitSea /\ [][NextSea]_vars

\* a YFactorCalibration instance under the scheduler; the SEA action stays idle
InitCal ==
    /\ sigan \in SiganInit
    /\ preselector = "none"
    /\ SeaInit({<<SeaParams(1, FALSE, 0)>>})
    /\ CalInit(CalConfigs)
    /\ TdInit({[iqdata_len |-> 0, td_bin_size_ms |-> 1, sample_rate |-> 1000]})
    /\ FftInit({<<FftParams(1, 1, 2)>>})
    /\ TdqInit({[name |-> <<"name">>, frequency |-> <<1>>, duration_ms |-> <<1>>,
                  sample_rate |-> <<1000>>]})
    /\ CfgInit({[kind |-> "other", items |-> <<>>]})
    /\ SiInit
    /\ RcInit({"loaded"})

NextCal ==
    \/ CalConstruct /\ UNCHANGED cal_others
    \/ CalCall /\ UNCHANGED cal_others
    \/ CalConfigure /\ UNCHANGED cal_others
    \/ CalDiodeOn /\ UNCHANGED cal_others
    \/ CalSettleOn /\ UNCHANGED cal_others
    \/ CalAcquireOn /\ UNCHANGED cal_others
    \/ CalDiodeOff /\ UNCHANGED cal_others
    \/ CalSettleOff /\ UNCHANGED cal_others
    \/ CalAcquireOff /\ UNCHANGED cal_others
    \/ CalFilter /\ UNCHANGED cal_others
    \/ CalCompute /\ UNCHANGED cal_others
    \/ CalPersist /\ UNCHANGED cal_others
    \/ CalReturn /\ UNCHANGED cal_others

SpecCal == InitCal /\ [][NextCal]_vars

\* either action under the scheduler, which runs one action at a time: a
\* behaviour follows the instance that is invoked first
SeaScheduled == cal_pc = "new"
CalScheduled == sea_pc = "idle" /\ sea_calls = 0

InitPipeline ==
    /\ sigan \in SiganInit
    /\ preselector = "none"
    /\ \/ /\ SeaInit(SeaStepSets)
          /\ CalInit({[iir_apply |-> "False", iir_params_list |-> FALSE, iir_cutoff_Hz |-> 5,
                        iir_width_Hz |-> 1, steps |-> <<CalParams(1, FALSE)>>]})
       \/ /\ SeaInit({<<SeaParams(1, FALSE, 0)>>})
          /\ CalInit(CalConfigs)
    /\ TdInit({[iqdata_len |-> 0, td_bin_size_ms |-> 1, sample_rate |-> 1000]})
    /\ FftInit({<<FftParams(1, 1, 2)>>})
    /\ TdqInit({[name |-> <<"name">>, frequency |-> <<1>>, duration_ms |-> <<1>>,
                  sample_rate |-> <<1000>>]})
    /\ CfgInit({[kind |-> "other", items |-> <<>>]})
    /\ SiInit
    /\ RcInit({"loaded"})

NextPipeline ==
    \/ SeaScheduled /\ SeaCall /\ UNCHANGED sea_others
    \/ SeaScheduled /\ SeaCaptureIq /\ UNCHANGED sea_others
    \/ SeaScheduled /\ GdpBegin /\ UNCHANGED sea_others
    \/ SeaScheduled /\ GdpFft /\ UNCHANGED sea_others
    \/ SeaScheduled /\ GdpFilter /\ UNCHANGED sea_others
    \/ SeaScheduled /\ GdpTd /\ UNCHANGED sea_others
    \/ SeaScheduled /\ GdpApd /\ UNCHANGED sea_others
    \/ SeaScheduled /\ GdpRound /\ UNCHANGED sea_others
    \/ SeaScheduled /\ GdpNarrow /\ UNCHANGED sea_others
    \/ SeaScheduled /\ SeaStoreProduct /\ UNCHANGED sea_others
    \/ SeaScheduled /\ SeaSendSignal /\ UNCHANGED sea_others
    \/ CalScheduled /\ CalConstruct /\ UNCHANGED cal_others
    \/ CalScheduled /\ CalCall /\ UNCHANGED cal_others
    \/ CalScheduled /\ CalConfigure /\ UNCHANGED cal_others
    \/ CalScheduled /\ CalDiodeOn /\ UNCHANGED cal_others
    \/ CalScheduled /\ CalSettleOn /\ UNCHANGED cal_others
    \/ CalScheduled /\ CalAcquireOn /\ UNCHANGED cal_others
    \/ CalScheduled /\ CalDiodeOff /\ UNCHANGED cal_others
    \/ CalScheduled /\ CalSettleOff /\ UNCHANGED cal_others
    \/ CalScheduled /\ CalAcquireOff /\ UNCHANGED cal_others
    \/ CalScheduled /\ CalFilter /\ UNCHANGED cal_others
    \/ CalScheduled /\ CalCompute /\ UNCHANGED cal_others
    \/ CalScheduled /\ CalPersist /\ UNCHANGED cal_others
    \/ CalScheduled /\ CalReturn /\ UNCHANGED cal_others

SpecPipeline == InitPipeline /\ [][NextPipeline]_vars

\* get_td_power_results evaluated for every buffer length, bin size and sample rate
InitTd ==
    /\ sigan \in {sg \in SiganInit : sg.is_available}
    /\ preselector = "none"
    /\ SeaInit({<<SeaParams(1, FALSE, 0)>>})
    /\ CalInit({[iir_apply |-> "False", iir_params_list |-> FALSE, iir_cutoff_Hz |-> 5,
                  iir_width_Hz |-> 1, steps |-> <<CalParams(1, FALSE)>>]})
    /\ TdInit(TdArgs)
    /\ FftInit({<<FftParams(1, 1, 2)>>})
    /\ TdqInit({[name |-> <<"name">>, frequency |-> <<1>>, duration_ms |-> <<1>>,
                  sample_rate |-> <<1000>>]})
    /\ CfgInit({[kind |-> "other", items |-> <<>>]})
    /\ SiInit
    /\ RcInit({"loaded"})

NextTd ==
    \/ TdReshape /\ UNCHANGED td_others

SpecTd == InitTd /\ [][NextTd]_vars

\* a SteppedFrequencyFftAcquisition instance under the scheduler
InitFft ==
    /\ sigan \in SiganInit
    /\ preselector = "none"
    /\ SeaInit({<<SeaParams(1, FALSE, 0)>>})
    /\ CalInit({[iir_apply |-> "False", iir_params_list |-> FALSE, iir_cutoff_Hz |-> 5,
                  iir_width_Hz |-> 1, steps |-> <<CalParams(1, FALSE)>>]})
    /\ TdInit({[iqdata_len |-> 0, td_bin_size_ms |-> 1, sample_rate |-> 1000]})
    /\ FftInit(FftStepSets)
    /\ TdqInit({[name |-> <<"name">>, frequency |-> <<1>>, duration_ms |-> <<1>>,
                  sample_rate |-> <<1000>>]})
    /\ CfgInit({[kind |-> "other", items |-> <<>>]})
    /\ SiInit
    /\ RcInit({"loaded"})

NextFft ==
    \/ FftCall /\ UNCHANGED fft_others
    \/ FftAcquire /\ UNCHANGED fft_others
    \/ FftApplyM4s /\ UNCHANGED fft_others
    \/ FftCreateMetadata /\ UNCHANGED fft_others
    \/ FftSendSignal /\ UNCHANGED fft_others

SpecFft == InitFft /\ [][NextFft]_vars

\* a SteppedFrequencyTimeDomainIqAcquisition instance under the scheduler
InitTdq ==
    /\ sigan \in SiganInit
    /\ preselector = "none"
    /\ SeaInit({<<SeaParams(1, FALSE, 0)>>})
    /\ CalInit({[iir_apply |-> "False", iir_params_list |-> FALSE, iir_cutoff_Hz |-> 5,
                  iir_width_Hz |-> 1, steps |-> <<CalParams(1, FALSE)>>]})
    /\ TdInit({[iqdata_len |-> 0, td_bin_size_ms |-> 1, sample_rate |-> 1000]})
    /\ FftInit({<<FftParams(1, 1, 2)>>})
    /\ TdqInit(TdqConfigs)
    /\ CfgInit({[kind |-> "other", items |-> <<>>]})
    /\ SiInit
    /\ RcInit({"loaded"})

NextTdq ==
    \/ TdqConstruct /\ UNCHANGED tdq_others
    \/ TdqCall /\ UNCHANGED tdq_others
    \/ TdqAcquire /\ UNCHANGED tdq_others
    \/ TdqCreateMetadata /\ UNCHANGED tdq_others
    \/ TdqSendSignal /\ UNCHANGED tdq_others

SpecTdq == InitTdq /\ [][NextTdq]_vars

\* one invocation of Action.configure_sigan on every value it may be given
InitCfg ==
    /\ sigan \in SiganInit
    /\ preselector = "none"
    /\ SeaInit({<<SeaParams(1, FALSE, 0)>>})
    /\ CalInit({[iir_apply |-> "False", iir_params_list |-> FALSE, iir_cutoff_Hz |-> 5,
                  iir_width_Hz |-> 1, steps |-> <<CalParams(1, FALSE)>>]})
    /\ TdInit({[iqdata_len |-> 0, td_bin_size_ms |-> 1, sample_rate |-> 1000]})
    /\ FftInit({<<FftParams(1, 1, 2)>>})
    /\ TdqInit({[name |-> <<"name">>, frequency |-> <<1>>, duration_ms |-> <<1>>,
                  sample_rate |-> <<1000>>]})
    /\ CfgInit(CfgParams)
    /\ SiInit
    /\ RcInit({"loaded"})

NextCfg ==
    \/ CfgConfigureSigan /\ UNCHANGED cfg_others

SpecCfg == InitCfg /\ [][NextCfg]_vars

\* a signal analyzer whose health is checked and whose power is cycled, one
\* method at a time
InitSigan ==
    /\ sigan \in SiganInit
    /\ preselector = "none"
    /\ SeaInit({<<SeaParams(1, FALSE, 0)>>})
    /\ CalInit({[iir_apply |-> "False", iir_params_list |-> FALSE, iir_cutoff_Hz |-> 5,
                  iir_width_Hz |-> 1, steps |-> <<CalParams(1, FALSE)>>]})
    /\ TdInit({[iqdata_len |-> 0, td_bin_size_ms |-> 1, sample_rate |-> 1000]})
    /\ FftInit({<<FftParams(1, 1, 2)>>})
    /\ TdqInit({[name |-> <<"name">>, frequency |-> <<1>>, duration_ms |-> <<1>>,
                  sample_rate |-> <<1000>>]})
    /\ CfgInit({[kind |-> "other", items |-> <<>>]})
    /\ SiInit
    /\ RcInit({"loaded"})

NextSigan ==
    \/ HealthyCall /\ UNCHANGED si_others
    \/ HealthyAvailable /\ UNCHANGED si_others
    \/ HealthyAcquire /\ UNCHANGED si_others
    \/ HealthyLength /\ UNCHANGED si_others
    \/ PccCall /\ UNCHANGED si_others
    \/ PccPowerCycle /\ UNCHANGED si_others
    \/ PccSleep /\ UNCHANGED si_others
    \/ PccConnect /\ UNCHANGED si_others

SpecSigan == InitSigan /\ [][NextSigan]_vars

\* recompute_sensor_calibration_data running while another thread reads the data
InitRecal ==
    /\ sigan \in SiganInit
    /\ preselector = "none"
    /\ SeaInit({<<SeaParams(1, FALSE, 0)>>})
    /\ CalInit({[iir_apply |-> "False", iir_params_list |-> FALSE, iir_cutoff_Hz |-> 5,
                  iir_width_Hz |-> 1, steps |-> <<CalParams(1, FALSE)>>]})
    /\ TdInit({[iqdata_len |-> 0, td_bin_size_ms |-> 1, sample_rate |-> 1000]})
    /\ FftInit({<<FftParams(1, 1, 2)>>})
    /\ TdqInit({[name |-> <<"name">>, frequency |-> <<1>>, duration_ms |-> <<1>>,
                  sample_rate |-> <<1000>>]})
    /\ CfgInit({[kind |-> "other", items |-> <<>>]})
    /\ SiInit
    /\ RcInit({"loaded", "None"})

NextRecal ==
    \/ RecomputeCall /\ UNCHANGED rc_others
    \/ RecomputeCopyDefaults /\ UNCHANGED rc_others
    \/ RecomputeUpdate /\ UNCHANGED rc_others
    \/ ReadSensorCal /\ UNCHANGED rc_others

SpecRecal == InitRecal /\ [][NextRecal]_vars

\* ---------------------------------------------------------------- helpers
IsPrefix(s, t) == Len(s) <= Len(t) /\ \A k \in 1..Len(s) : s[k] = t[k]

InGdp == sea_pc \in {"gdp_fft", "gdp_filter", "gdp_td", "gdp_apd", "gdp_round",
                     "gdp_narrow", "gdp_return"}

GdpReturned == sea_pc = "gdp_return"

\* the stages of generate_data_product for a parameter set, in order
GdpStages(p) ==
    IF p.iir_apply THEN <<"fft", "filter", "td", "apd", "round", "narrow">>
    ELSE <<"fft", "td", "apd", "round", "narrow">>

Stats(dp) == [k \in 1..Len(dp) |-> dp[k].stat]

RoundOps(a) == {j \in 1..Len(a.ops) : a.ops[j].op = "round"}
HalfOps(a) == {j \in 1..Len(a.ops) : a.ops[j].op = "astype_half"}

Member(seq, x) == \E k \in 1..Len(seq) : seq[k] = x

\* the steps of a run of calibrate that returns normally
CalExpectedTrace ==
    <<"configure_sigan", "noise_diode_on", "sleep", "acquire_on",
      "noise_diode_off", "sleep", "acquire_off">>
    \o (IF Truthy(cal_iir_apply) THEN <<"filter">> ELSE <<>>)
    \o <<"y_factor", "update">>

\* a run of calibrate is under way or has just ended
InCalibrate == cal_i >= 1 /\ cal_pc \notin {"new", "ctor_failed", "idle", "configure"}

\* both captures of the current run are taken and their sample rates differ
SampleRateMismatch ==
    /\ InCalibrate
    /\ Member(cal_trace, "acquire_off")
    /\ noise_off # NoCapture
    /\ noise_on.sample_rate # noise_off.sample_rate

\* the updates made for the current step of the current __call__
RunUpdates ==
    {j \in 1..Len(cal_updates) :
        cal_updates[j].call = cal_calls /\ cal_updates[j].params = cal_steps[cal_i]}

\* y_factor has run in the current step on powers with P_on / P_off <= 1
DegenerateY ==
    /\ InCalibrate
    /\ Member(cal_trace, "y_factor")
    /\ calculate_power_watts(cal_data.noise_on_data)
         <= calculate_power_watts(cal_data.noise_off_data)

\* the events of a __call__ over n steps
SeaStepEvents == <<"configure", "acquire", "assemble", "signal">>
SeaExpectedTrace(n) ==
    [j \in 1..(4 * n) |-> Ev(SeaStepEvents[((j - 1) % 4) + 1], ((j - 1) \div 4) + 1)]

\* ------------------------------------------------------------------ claims

\* C1: generate_data_product runs its stages in the order FFT, optional IIR
\* filter (exactly when iir_apply), time-domain statistics, APD; the FFT arrays
\* are computed from the unfiltered IQ for either value of iir_apply, and the
\* time-domain and APD arrays from the same, possibly filtered, IQ.
C1_StageOrder ==
    InGdp =>
        LET p == sea_steps[sea_i]
            raw == AsType(gdp_entry.mr.data.buf, "complex128")
            used == IF p.iir_apply THEN SosFilt(gdp_entry.iir_sos, raw) ELSE raw
        IN  /\ IsPrefix(gdp_log, GdpStages(p))
            /\ GdpReturned => gdp_log = GdpStages(p)
            /\ \A k \in 1..Len(data_product) :
                 /\ data_product[k].stat \in {"fft_mean", "fft_max"} =>
                        data_product[k].iq = raw /\ data_product[k].iq.sos = "none"
                 /\ data_product[k].stat \in {"td_mean", "td_max", "apd_p", "apd_a"} =>
                        data_product[k].iq = used

C1_Witness ==
    /\ GdpReturned
    /\ sea_steps[sea_i].iir_apply
    /\ data_product[1].iq.sos = "none"
    /\ data_product[3].iq.sos = iir_sos

\* C2: in the result of generate_data_product every array except the APD
\* probability axis carries exactly one rounding, to round_to_places, and the
\* probability axis carries none: the entry the loop skips is the probability
\* array returned by get_apd_results.
C2_RoundingExemption ==
    GdpReturned =>
        /\ \A k \in 1..Len(data_product) :
             LET a == data_product[k] IN
               IF a.stat = "apd_p" THEN RoundOps(a) = {}
               ELSE /\ Cardinality(RoundOps(a)) = 1
                    /\ \A j \in RoundOps(a) : a.ops[j].arg = sea_steps[sea_i].round_to_places
        /\ {k \in 1..Len(data_product) : RoundOps(data_product[k]) = {}} = {SkipIndex}
        /\ data_product[SkipIndex].stat = "apd_p"

C2_Witness ==
    /\ GdpReturned
    /\ sea_steps[sea_i].round_to_places = 2
    /\ RoundOps(data_product[SkipIndex]) = {}
    /\ RoundOps(data_product[SkipIndex + 1]) # {}

\* C3 as stated: the result order ends with the APD amplitude axis at index 4
\* and the APD probability axis at index 5 (0-based).
C3_Original ==
    GdpReturned =>
        Stats(data_product) = <<"fft_mean", "fft_max", "td_mean", "td_max", "apd_a", "apd_p">>

\* C3 amended: the result order is FFT mean, FFT max, time-domain mean,
\* time-domain max, APD probability axis (index 4), APD amplitude axis (index 5).
C3_ProductOrder ==
    GdpReturned =>
        Stats(data_product) = <<"fft_mean", "fft_max", "td_mean", "td_max", "apd_p", "apd_a">>

C3_Witness ==
    /\ GdpReturned
    /\ Len(data_product) = 6
    /\ data_product[5].stat = "apd_p"
    /\ data_product[6].stat = "apd_a"

\* C4: generate_data_product returns exactly six arrays, each narrowed to half
\* precision exactly once (the unrounded probability axis included), and an
\* array's rounding precedes its narrowing.
C4_SixHalfArrays ==
    GdpReturned =>
        /\ Len(data_product) = 6
        /\ \A k \in 1..Len(data_product) :
             LET a == data_product[k] IN
               /\ HalfOps(a) = {Len(a.ops)}
               /\ \A r \in RoundOps(a) : \A h \in HalfOps(a) : r < h

C4_Witness ==
    /\ GdpReturned
    /\ Len(data_product[SkipIndex].ops) = 1
    /\ data_product[SkipIndex].ops[1].op = "astype_half"
    /\ Len(data_product[1].ops) = 2
    /\ data_product[1].ops[2].op = "astype_half"

\* C5: from entry to return of generate_data_product the caller's
\* measurement_result (its raw IQ under "data" included), the parameter set,
\* iir_sos, the FFT window and its correction factor are unchanged, the signal
\* analyzer is not touched and nothing is acquired or signalled.
C5_GdpFrame ==
    InGdp =>
        /\ sea_mr = gdp_entry.mr
        /\ sea_mr.data.kind = "iq"
        /\ sea_steps[sea_i] = gdp_entry.params
        /\ iir_sos = gdp_entry.iir_sos
        /\ fft_window = gdp_entry.fft_window
        /\ fft_window_ecf = gdp_entry.fft_window_ecf
        /\ sigan = gdp_entry.sigan
        /\ sea_trace = gdp_entry.trace

C5_Witness ==
    /\ GdpReturned
    /\ sea_steps[sea_i].iir_apply
    /\ Len(data_product) = 6
    /\ sea_mr.data.buf.sos = "none"
    /\ sea_mr.data.buf.dtype = "complex64"

\* C6: a run of calibrate that returns normally has gone, each step once, through
\* configure, diode on, sleep, acquire, diode off, sleep, acquire, filter (when
\* filtering is on), y_factor, update; every run, also a failing one, is a
\* prefix of that order, so no capture precedes its diode switch and settle.
C6_CalibrateOrder ==
    InCalibrate =>
        /\ IsPrefix(cal_trace, CalExpectedTrace)
        /\ cal_pc \in {"return", "done"} => cal_trace = CalExpectedTrace

C6_Witness ==
    /\ cal_pc = "return"
    /\ cal_trace = CalExpectedTrace
    /\ Len(cal_trace) = 10
    /\ cal_trace[3] = "sleep"
    /\ cal_trace[6] = "sleep"

C9_UpdateAfterCompute ==
    InCalibrate =>
        LET params == cal_steps[cal_i]
            temp == get_temperature(params.temp_sensor_idx)
            yf == y_factor(calculate_power_watts(cal_data.noise_on_data),
                           calculate_power_watts(cal_data.noise_off_data),
                           get_linear_enr(params.cal_source_idx), cal_data.enbw_hz, temp[1])
        IN  /\ Cardinality(RunUpdates) = IF Member(cal_trace, "update") THEN 1 ELSE 0
            /\ Member(cal_trace, "update") =>
                 /\ cal_err = "none"
                 /\ cal_trace = CalExpectedTrace
                 /\ noise_on # NoCapture /\ noise_off # NoCapture
                 /\ yf.err = "none"
                 /\ cal_updates[Len(cal_updates)] =
                        [call |-> cal_calls, params |-> params, gain |-> yf.gain,
                         noise_figure |-> yf.noise_figure, temp_c |-> temp[2]]

C9_Witness ==
    /\ cal_pc = "return"
    /\ cal_i = 2
    /\ Len(cal_updates) = 2
    /\ cal_updates[2].params = cal_steps[2]

\* C10: __call__ handles the steps one after another: the trace of a call is
\* configure, acquire, assemble, signal for step 1, then the same for step 2,
\* and so on; no step is configured or acquired before the previous step's
\* data product is assembled and signalled.
C10_StepsSequential ==
    /\ IsPrefix(sea_trace, SeaExpectedTrace(Len(sea_steps)))
    /\ sea_pc = "capture" => Len(sea_trace) = 4 * (sea_i - 1)
    /\ sea_pc = "done" => sea_trace = SeaExpectedTrace(Len(sea_steps))

C10_Witness ==
    /\ sea_pc = "capture"
    /\ sea_i = 2
    /\ Len(sea_trace) = 4
    /\ sea_trace[3] = Ev("assemble", 1)

\* the number of occurrences of x in seq
Count(seq, x) == Cardinality({k \in 1..Len(seq) : seq[k] = x})

\* the steps named by the events of a trace of __call__
TraceSteps(trace) == {trace[k].step : k \in 1..Len(trace)}

\* C11: no acquisition is retried. In a __call__ of NasctnSeaDataProduct every
\* step calls acquire_time_domain_samples once, and in a run of calibrate each of
\* the two captures calls it once; when the call raises, the exception leaves
\* __call__ at once: no later step is configured or acquired, and no signal
\* (no calibration update) exists for the failing step or a later one.
C11_NoRetry ==
    /\ \A i \in 1..Len(sea_steps) :
          /\ Count(sea_trace, Ev("acquire", i)) <= 1
          /\ Count(sea_trace, Ev("acquire", i)) = Count(sea_trace, Ev("configure", i))
    /\ sea_err = "AcquireError" =>
          /\ sea_pc = "failed"
          /\ sea_trace[Len(sea_trace)] = Ev("acquire", sea_i)
          /\ \A i \in TraceSteps(sea_trace) : i <= sea_i
          /\ Len(sea_signals) = sea_i - 1
          /\ Count(sea_trace, Ev("signal", sea_i)) = 0
          /\ sigan.frequency = sea_steps[sea_i].frequency
    /\ Count(cal_trace, "acquire_on") <= 1
    /\ Count(cal_trace, "acquire_off") <= 1
    /\ cal_err = "AcquireError" =>
          /\ cal_pc = "failed"
          /\ cal_trace[Len(cal_trace)] \in {"acquire_on", "acquire_off"}
          /\ ~Member(cal_trace, "update")
          /\ RunUpdates = {}
          /\ Len(cal_updates) = cal_i - 1
          /\ sigan.frequency = cal_steps[cal_i].frequency

C11_Witness ==
    /\ sea_err = "AcquireError"
    /\ sea_i = 2
    /\ Len(sea_signals) = 1
    /\ Count(sea_trace, Ev("acquire", 2)) = 1

\* C12 as stated: with is_available false, __call__ of either action raises
\* RuntimeError before the signal analyzer or the preselector is configured,
\* before anything is acquired, signalled or written to the calibration.
C12_UnavailableRuntimeError ==
    /\ (~sigan.is_available /\ sea_calls >= 1) =>
          /\ sea_pc = "failed"
          /\ sea_err = "RuntimeError"
          /\ sea_trace = <<>>
          /\ sea_signals = <<>>
          /\ sigan.frequency = 0
          /\ preselector = "none"
    /\ (~sigan.is_available /\ cal_calls >= 1) =>
          /\ cal_pc = "failed"
          /\ cal_err = "RuntimeError"
          /\ cal_trace = <<>>
          /\ cal_updates = <<>>
          /\ sigan.frequency = 0
          /\ preselector = "none"

\* C13 as stated: block_size = floor(td_bin_size_ms * sample_rate / 1000),
\* n_blocks = floor(len(iqdata) / block_size), and for every sample count with
\* n_blocks >= 1 the first n_blocks * block_size samples are reshaped into
\* n_blocks blocks of block_size samples, the trailing remainder being dropped,
\* also when len(iqdata) is not a multiple of block_size.
C13_RemainderDropped ==
    (td_ret.status # "pending" /\ td_ret.block_size >= 1 /\ td_ret.n_blocks >= 1) =>
        /\ td_ret.block_size = (td_args.td_bin_size_ms * td_args.sample_rate) \div 1000
        /\ td_ret.n_blocks = td_args.iqdata_len \div td_ret.block_size
        /\ td_ret.err = "none"
        /\ td_ret.shape = <<td_ret.n_blocks, td_ret.block_size>>

\* the filter the constructor designs from the configuration
DesignedIir == [sos |-> "cal_sos", cutoff_Hz |-> cal_cfg.iir_cutoff_Hz,
                width_Hz |-> cal_cfg.iir_width_Hz]

\* the filter branch or the lookup branch of the current run has completed
PastFilter == InCalibrate /\ cal_data # NoCalData

\* C14: with filtering enabled, calibrate filters both captures with the one
\* set of coefficients the constructor designed and passes 2 * (cutoff + width)
\* to y_factor as ENBW; with filtering disabled the powers are computed from
\* the captures as acquired. The captures themselves are never modified.
C14_FilterBothOrNeither ==
    /\ (cal_pc \notin {"new", "ctor_failed"} /\ cal_iir_apply = "True") =>
            cal_iir = DesignedIir
    /\ cal_iir \in {NoIir, DesignedIir}
    /\ InCalibrate =>
          /\ noise_on.data.sos = "none"
          /\ noise_off.data.sos = "none"
          /\ Member(cal_trace, "filter") <=> (Truthy(cal_iir_apply) /\ PastFilter)
          /\ Member(cal_trace, "y_factor") => PastFilter
    /\ (PastFilter /\ Truthy(cal_iir_apply)) =>
          /\ cal_iir = DesignedIir
          /\ cal_data.noise_on_data = SosFilt(DesignedIir.sos, noise_on.data)
          /\ cal_data.noise_off_data = SosFilt(DesignedIir.sos, noise_off.data)
          /\ cal_data.enbw_hz = 2 * (cal_cfg.iir_cutoff_Hz + cal_cfg.iir_width_Hz)
    /\ (PastFilter /\ ~Truthy(cal_iir_apply)) =>
          /\ cal_data.noise_on_data = noise_on.data
          /\ cal_data.noise_off_data = noise_off.data

C14_Witness ==
    /\ cal_pc = "persist"
    /\ cal_iir_apply = "True"
    /\ cal_data.noise_on_data.sos = "cal_sos"
    /\ cal_data.noise_off_data.sos = "cal_sos"
    /\ cal_data.enbw_hz = 12
    /\ noise_on.data.capture # noise_off.data.capture

\* both acquisitions of the current run succeeded with equal sample rates
BothAcquired ==
    /\ InCalibrate
    /\ noise_on # NoCapture
    /\ noise_off # NoCapture
    /\ noise_on.sample_rate = noise_off.sample_rate

\* C15 as stated: without filtering, calibrate takes the ENBW from the sensor
\* calibration held by the signal analyzer and goes on to the update whenever
\* both acquisitions succeed with equal sample rates, also when the signal
\* analyzer holds only its default calibration data.
C15_NoFilterReachesPersist ==
    (BothAcquired /\ ~Truthy(cal_iir_apply) /\ cal_pc # "filter") =>
        /\ cal_err \notin {"AttributeError", "KeyError"}
        /\ PastFilter

\* C16 as stated: before the diode-on acquisition starts, every key of the
\* step's parameter set that is an attribute of the signal analyzer,
\* preamp_enable included, holds that step's value on the signal analyzer.
C16_MatchingAttributesSet ==
    cal_pc \in {"diode_on", "settle_on", "acquire_on"} =>
        \A k \in (DOMAIN cal_steps[cal_i]) \cap (DOMAIN sigan) :
            sigan[k] = cal_steps[cal_i][k]

\* C17 as stated: every invocation of __call__ on one instance with an
\* available signal analyzer, the second and later ones included, captures and
\* assembles every step as the first one does (only the acquisition can make it
\* fail) and leaves the configured parameters as they were before the call.
C17_RepeatableCall ==
    /\ sea_parameters = SeaAllKeys
    /\ (sigan.is_available /\ sea_calls >= 1) => sea_err \in {"none", "AcquireError"}
    /\ (sigan.is_available /\ sea_calls >= 1 /\ sea_pc \in {"done", "failed"}
           /\ sea_err = "none") => Len(sea_signals) = Len(sea_steps)

\* the positions of the signal events in a trace of __call__
SignalEvents(trace) == {k \in 1..Len(trace) : trace[k].ev = "signal"}

\* C18: a __call__ sends one completion signal per step, in step order, each
\* right after that step's data product replaced the raw IQ in the measurement
\* result; a normally completing call has sent exactly one per configured
\* step, and every signal carries the six arrays of its step's data product,
\* never the raw capture.
C18_OneSignalPerStep ==
    /\ Len(sea_signals) = Cardinality(SignalEvents(sea_trace))
    /\ \A k \in SignalEvents(sea_trace) :
          /\ k > 1
          /\ sea_trace[k - 1] = Ev("assemble", sea_trace[k].step)
          /\ sea_trace[k].step = Cardinality({j \in SignalEvents(sea_trace) : j <= k})
    /\ \A k \in 1..Len(sea_signals) :
          /\ sea_signals[k].kind = "data_product"
          /\ sea_signals[k].buf = NoBuffer
          /\ Len(sea_signals[k].arrays) = 6
          /\ \A a \in 1..6 :
                /\ sea_signals[k].arrays[a].iq.capture \in 1..MaxIQ
                /\ \A r \in RoundOps(sea_signals[k].arrays[a]) :
                      sea_signals[k].arrays[a].ops[r].arg = sea_steps[k].round_to_places
          /\ sea_signals[k].arrays[3].iq.sos =
                (IF sea_steps[k].iir_apply THEN iir_sos ELSE "none")
    /\ sea_pc = "signal" => sea_mr.data = ProductData(data_product)
    /\ sea_pc = "done" => Len(sea_signals) = Len(sea_steps)

C18_Witness ==
    /\ sea_pc = "done"
    /\ Len(sea_steps) = 2
    /\ Len(sea_signals) = 2
    /\ sea_steps[1].iir_apply /\ ~sea_steps[2].iir_apply
    /\ sea_signals[1].arrays[3].iq.sos = iir_sos
    /\ sea_signals[2].arrays[3].iq.sos = "none"

\* the positions of the events of one kind in the log of __call__
FftEvents(e) == {k \in 1..Len(fft_log) : fft_log[k].ev = e}

\* the total number of elements of the M4S results of the steps before step id
RECURSIVE M4sBefore(_, _)
M4sBefore(k, id) ==
    IF k = 0 THEN 0
    ELSE M4sBefore(k - 1, id)
         + (IF fft_log[k].ev = "m4s" /\ fft_log[k].recording_id < id
            THEN fft_log[k].m4s ELSE 0)

\* C19: in a __call__ of SteppedFrequencyFftAcquisition the steps get the
\* recording ids 1, 2, ... in iteration order; each step requests nffts * fft_size
\* samples; the capture segment of a step has sample_start 0 and as global_index
\* the number of elements of the M4S results of the earlier steps of this
\* invocation (0 for the first step of every invocation); a step's metadata is
\* created before its completion signal is sent.
C19_RecordingIndex ==
    /\ \A k \in FftEvents("acquire") :
          LET e == fft_log[k] IN
            /\ e.recording_id = Cardinality({j \in FftEvents("acquire") : j <= k})
            /\ e.mr.num_samples = iterable_params[e.recording_id].nffts
                                    * iterable_params[e.recording_id].fft_size
    /\ \A k \in FftEvents("metadata") :
          LET e == fft_log[k] IN
            /\ e.mr.capture_segment.sample_start = 0
            /\ e.mr.capture_segment.global_index = M4sBefore(Len(fft_log), e.recording_id)
            /\ e.recording_id = 1 => e.mr.capture_segment.global_index = 0
            /\ e.mr.capture_segment.frequency = iterable_params[e.recording_id].frequency
            /\ e.mr.num_samples = iterable_params[e.recording_id].nffts
                                    * iterable_params[e.recording_id].fft_size
    /\ \A k \in FftEvents("signal") :
          /\ k > 1
          /\ fft_log[k - 1].ev = "metadata"
          /\ fft_log[k - 1].recording_id = fft_log[k].recording_id
    /\ fft_pc = "done" =>
          /\ Cardinality(FftEvents("signal")) = Len(iterable_params)
          /\ saved_samples = M4sBefore(Len(fft_log), Len(iterable_params) + 1)

C19_Witness ==
    /\ fft_pc = "done"
    /\ fft_calls = 2
    /\ Len(iterable_params) = 2
    /\ fft_log[Len(fft_log)].ev = "signal"
    /\ fft_log[Len(fft_log)].recording_id = 2
    /\ fft_log[Len(fft_log)].mr.capture_segment.global_index = 2
    /\ fft_log[Len(fft_log)].mr.num_samples = 8

\* the configuration gives one entry per frequency for every key
PerStepLists ==
    \A key \in (DOMAIN tdq_parameters) \ {"name"} :
        Len(tdq_parameters[key]) = Len(tdq_parameters[FREQUENCY])

\* the parameter dict of list position k of the configuration
AtPosition(k) ==
    [key \in (DOMAIN tdq_parameters) \ {"name"} |-> tdq_parameters[key][k]]

\* the one-to-one assignments of the list positions 1..n to 1..n
Bijections(n) == {f \in [1..n -> 1..n] : \A a, b \in 1..n : f[a] = f[b] => a = b}

\* the positions of the events of one kind in the log of __call__
TdqEvents(e) == {k \in 1..Len(tdq_log) : tdq_log[k].ev = e}

\* C20: from per-step lists the constructor builds one parameter dict per list
\* position, each holding the values of all keys at that position, sorted by
\* ascending frequency; __call__ configures, acquires and signals once per
\* entry of the frequency list, in that (non-decreasing frequency) order, each
\* step with the parameters of its own list position.
C20_SortedPerPosition ==
    (PerStepLists /\ tdq_pc # "new") =>
        LET n == Len(tdq_parameters[FREQUENCY])
            sorted == sorted_measurement_parameters
        IN  /\ Len(sorted) = n
            /\ num_center_frequencies = n
            /\ \A j \in 1..(n - 1) : sorted[j].frequency <= sorted[j + 1].frequency
            /\ \E f \in Bijections(n) : \A j \in 1..n : sorted[j] = AtPosition(f[j])
            /\ \A e \in {"configure", "acquire", "signal"} :
                 /\ \A k \in TdqEvents(e) :
                      /\ tdq_log[k].recording_id = Cardinality({j \in TdqEvents(e) : j <= k})
                      /\ tdq_log[k].mr.params = sorted[tdq_log[k].recording_id]
                 /\ tdq_pc = "done" => Cardinality(TdqEvents(e)) = n
            /\ \A k \in TdqEvents("signal") :
                 /\ k > 3
                 /\ tdq_log[k - 2].ev = "acquire"
                 /\ tdq_log[k - 2].recording_id = tdq_log[k].recording_id
                 /\ tdq_log[k - 3].ev = "configure"
                 /\ tdq_log[k - 3].recording_id = tdq_log[k].recording_id

C20_Witness ==
    /\ tdq_pc = "done"
    /\ tdq_parameters[FREQUENCY] = <<2, 1>>
    /\ tdq_parameters[DURATION_MS] = <<1, 2>>
    /\ Len(tdq_log) = 8
    /\ tdq_log[4].ev = "signal"
    /\ tdq_log[4].mr.params.frequency = 1
    /\ tdq_log[4].mr.params.duration_ms = 2
    /\ tdq_log[8].ev = "signal"
    /\ tdq_log[8].mr.params.frequency = 2
    /\ tdq_log[8].mr.params.duration_ms = 1

\* the detail __call__ returns after n steps: the result strings of the steps'
\* updates, in step order, with one line separator between neighbours
JoinedDetail(n) ==
    [j \in 1..(IF n = 0 THEN 0 ELSE 2 * n - 1) |->
        IF j % 2 = 0 THEN "linesep"
        ELSE ResultString(cal_updates[(j + 1) \div 2].noise_figure,
                          cal_updates[(j + 1) \div 2].gain)]

\* the first n steps have persisted their updates, one each, in step order
UpdatesOfSteps(n) ==
    /\ Len(cal_updates) = n
    /\ \A j \in 1..n : /\ cal_updates[j].params = cal_steps[j]
                       /\ cal_updates[j].call = cal_calls

\* C21: __call__ calibrates the steps in iteration order, one at a time; on
\* success it returns the steps' result strings joined by the line separator in
\* that order; when step k fails the exception propagates, no later step is
\* started, the updates of the steps before k stay and step k has no update
C21_StepsInOrderNoRollback ==
    /\ cal_i >= 1 /\ cal_pc # "configure" =>
          sigan.frequency = cal_steps[cal_i].frequency
    /\ cal_i >= 1 /\ cal_pc \notin {"done", "failed"} =>
          /\ UpdatesOfSteps(IF cal_pc = "return" THEN cal_i ELSE cal_i - 1)
          /\ cal_detail = JoinedDetail(cal_i - 1)
    /\ cal_pc = "done" =>
          /\ cal_i = Len(cal_steps)
          /\ UpdatesOfSteps(Len(cal_steps))
          /\ cal_detail = JoinedDetail(Len(cal_steps))
          /\ cal_err = "none"
    /\ cal_pc = "failed" /\ cal_i >= 1 =>
          /\ cal_err # "none"
          /\ UpdatesOfSteps(cal_i - 1)
          /\ RunUpdates = {}

\* the second step of a call has failed after the first one persisted its update
C21_Witness ==
    /\ cal_pc = "failed"
    /\ cal_i = 2
    /\ Len(cal_updates) = 1
    /\ cal_updates[1].params = cal_steps[1]
    /\ cal_err # "none"

\* the position of the first x in seq, 0 when there is none
Position(seq, x) ==
    IF Member(seq, x) THEN CHOOSE k \in 1..Len(seq) :
                               seq[k] = x /\ \A j \in 1..(k - 1) : seq[j] # x
    ELSE 0

\* the diode-on acquisition of the current run of calibrate has raised
DiodeOnAcquireRaised ==
    /\ InCalibrate
    /\ cal_pc = "failed"
    /\ cal_err = "AcquireError"
    /\ cal_trace[Len(cal_trace)] = "acquire_on"

\* C22: a run of calibrate commands the preselector to noise_diode_on at most
\* once and to noise_diode_off at most once, on before off; after a normal
\* return the last commanded state is noise_diode_off; no command follows a
\* failure, so a raising diode-on acquisition leaves the diode switched on
C22_DiodeOnThenOff ==
    /\ InCalibrate =>
          /\ Count(cal_trace, "noise_diode_on") <= 1
          /\ Count(cal_trace, "noise_diode_off") <= 1
          /\ Member(cal_trace, "noise_diode_off") =>
                /\ Member(cal_trace, "noise_diode_on")
                /\ Position(cal_trace, "noise_diode_on")
                     < Position(cal_trace, "noise_diode_off")
          /\ preselector =
                IF Member(cal_trace, "noise_diode_off") THEN NOISE_DIODE_OFF[RF_PATH]
                ELSE IF Member(cal_trace, "noise_diode_on") THEN NOISE_DIODE_ON[RF_PATH]
                ELSE preselector
    /\ InCalibrate /\ cal_pc \in {"return", "done"} =>
          /\ preselector = NOISE_DIODE_OFF[RF_PATH]
          /\ Count(cal_trace, "noise_diode_on") = 1
          /\ Count(cal_trace, "noise_diode_off") = 1
    /\ DiodeOnAcquireRaised => preselector = NOISE_DIODE_ON[RF_PATH]

\* the diode-on acquisition raised in the second step, after a first step that
\* had switched the diode off again
C22_Witness ==
    /\ DiodeOnAcquireRaised
    /\ cal_i = 2
    /\ preselector = NOISE_DIODE_ON[RF_PATH]

\* the constructor raised ParameterException: no object, no filter, no step
RejectedByConstructor ==
    /\ cal_pc = "ctor_failed"
    /\ cal_err = "ParameterException"
    /\ cal_iir = NoIir
    /\ cal_calls = 0
    /\ cal_i = 0

\* C23: the constructor validates the filter configuration: without iir_apply
\* there is no filtering and no filter; iir_apply given as a list raises
\* ParameterException; with iir_apply True a list among the filter parameters
\* or the sample rate raises ParameterException, otherwise the one filter is
\* designed by the constructor, before any calibration step
C23_ConstructorValidatesFilter ==
    cal_pc # "new" =>
        /\ cal_cfg.iir_apply = "missing" =>
              cal_iir_apply = "False" /\ cal_iir = NoIir /\ cal_pc # "ctor_failed"
        /\ cal_cfg.iir_apply = "list" => RejectedByConstructor
        /\ cal_cfg.iir_apply = "True" /\ cal_cfg.iir_params_list => RejectedByConstructor
        /\ cal_cfg.iir_apply = "True" /\ ~cal_cfg.iir_params_list =>
              cal_iir = DesignedIir /\ cal_pc # "ctor_failed"
        /\ cal_pc = "ctor_failed" => RejectedByConstructor

\* iir_apply is True and a filter parameter is a list: the constructor raised
C23_Witness ==
    /\ cal_cfg.iir_apply = "True"
    /\ cal_cfg.iir_params_list
    /\ RejectedByConstructor

\* C24: for every iir_apply value the constructor accepts, the constructor has
\* designed the filter exactly when calibrate takes the filtering branch, so
\* the branch always finds iir_sos, the cutoff and the width
C24_DesignMatchesUse ==
    cal_pc \notin {"new", "ctor_failed"} =>
        /\ Truthy(cal_iir_apply) <=> cal_iir = DesignedIir
        /\ Truthy(cal_iir_apply) => cal_err # "AttributeError"

\* the keys of a dictionary, in insertion order, and the value it gives a key
KeySeq(d) == [k \in 1..Len(d) |-> d[k][1]]
Keys(d) == {d[k][1] : k \in 1..Len(d)}
ValueOf(d, key) == d[CHOOSE k \in 1..Len(d) : d[k][1] = key][2]

\* the keys of a dictionary the signal analyzer had no attribute for, in order
UnknownKeys(d) == SelectSeq(KeySeq(d), LAMBDA key : key \notin DOMAIN cfg_before)

\* the dictionaries of a list that name an attribute
Naming(items, a) == {i \in 1..Len(items) : a \in Keys(items[i])}

\* the number of warnings a list of dictionaries gives rise to
RECURSIVE UnknownCount(_)
UnknownCount(items) ==
    IF items = <<>> THEN 0
    ELSE Len(UnknownKeys(Head(items))) + UnknownCount(Tail(items))

HealthyEnded == h_ret # "pending"

\* C26: healthy never propagates an acquisition failure: it returns False
\* without acquiring when the signal analyzer is not available, False when
\* acquire_time_domain_samples raises, False when the buffer length differs from
\* num_samples, and True only when the signal analyzer is available and exactly
\* num_samples samples came back; it asks for the samples with calibration
\* adjustment off and acquires at most once
C26_HealthyNeverRaises ==
    /\ h_ret \in {"pending", "True", "False"}
    /\ Len(h_acquires) <= 1
    /\ \A k \in 1..Len(h_acquires) :
          /\ h_acquires[k].num_samples = h_num_samples
          /\ h_acquires[k].cal_adjust = FALSE
    /\ h_is_available # "True" => h_acquires = <<>>
    /\ HealthyEnded =>
          /\ h_is_available = "False" => h_ret = "False"
          /\ h_result.outcome \in {"Exception", "KeyError"} => h_ret = "False"
          /\ h_result.outcome = "data" /\ h_result.len # h_num_samples => h_ret = "False"
          /\ h_ret = "True" <=>
                /\ h_is_available = "True"
                /\ Len(h_acquires) = 1
                /\ h_result.outcome = "data"
                /\ h_result.len = h_num_samples

\* the acquisition of a health check raised and healthy returned False
C26_Witness ==
    /\ h_is_available = "True"
    /\ h_result.outcome = "Exception"
    /\ Len(h_acquires) = 1
    /\ h_ret = "False"
    /\ si_pc = "idle"

\* the calls power_cycle_and_connect has made, without their outcomes
PccCalls == [k \in 1..Len(pcc_log) |-> pcc_log[k][1]]

\* the outcome of the one call of op in the log
PccOutcome(op) == pcc_log[Position(PccCalls, op)][2]

\* C27: power_cycle_and_connect calls connect at most once and only after
\* power_cycle_sigan returned without error and the sleep elapsed; after a
\* HardwareConfigurationException of power_cycle_sigan connect is never
\* called; an exception of connect is swallowed; the method returns normally in
\* all of these cases
C27_ConnectOnlyAfterPowerCycle ==
    /\ Count(PccCalls, "connect") <= 1
    /\ Count(PccCalls, "power_cycle_sigan") <= 1
    /\ Member(PccCalls, "connect") =>
          /\ PccCalls = <<"power_cycle_sigan", "sleep", "connect">>
          /\ PccOutcome("power_cycle_sigan") = "returned"
          /\ PccOutcome("sleep") = "returned"
          /\ pcc_ret = "returned"
    /\ Member(pcc_log, <<"power_cycle_sigan", "HardwareConfigurationException">>) =>
          /\ PccCalls = <<"power_cycle_sigan">>
          /\ pcc_ret = "returned"
    /\ pcc_ret = "raised" => pcc_log = <<<<"power_cycle_sigan", "Exception">>>>

\* connect raised after the power cycle and the method returned normally
C27_Witness ==
    /\ pcc_log = <<<<"power_cycle_sigan", "returned">>, <<"sleep", "returned">>,
                   <<"connect", "Exception">>>>
    /\ pcc_ret = "returned"
    /\ si_pc = "idle"

\* C28: a reader of sensor_calibration_data that runs concurrently with
\* recompute_sensor_calibration_data never observes a half-written record:
\* every value it reads is the complete data from before the recompute or the
\* complete data after it, never the bare defaults without the looked-up entries
C28_ReaderSeesWholeRecord ==
    \A r \in observed : r.value \in {r.before, r.after}
====
